---------------------------- MODULE Spec2Model ----------------------------
(***************************************************************************)
(* RustDMBS storage engine (src/src/db/storage.rs, src/src/db/schema.rs).  *)
(*                                                                         *)
(* The engine is one RwLock around a HashMap from collection name to a     *)
(* collection; a collection is a name and an RwLock around a Vec<Record>.  *)
(* The snapshot file is a serde_json document of the whole map.            *)
(*                                                                         *)
(* Spec      every engine operation as one atomic call on the shared       *)
(*           handle (calls made one after the other).                      *)
(* SpecFile  load_from_file and save_to_file on the files a path can hold.  *)
(* SpecConc  the same operations split at their lock acquisitions, run by  *)
(*           several threads that share the handle.                        *)
(* FairConc  SpecConc under a scheduler that runs every thread that can    *)
(*           take a step.                                                  *)
(* SpecSnap  one thread in save_to_file while another makes call after     *)
(*           call.                                                         *)
(* SpecParse parse_value on the texts of a command line.                   *)
(* SpecCli   the command loop of main.rs on the lines it reads.            *)
(***************************************************************************)
EXTENDS Integers, Sequences, FiniteSets, TLC

VARIABLES
    collections,  \* StorageEngine.collections: RwLock<HashMap<String, Arc<CollectionStorage>>>
    file,         \* what is stored at the snapshot path
    fsWritable,   \* whether File::create(path) succeeds (directory, permissions)
    last,         \* the last completed call of Spec: its arguments and its result
    pc,           \* SpecConc: where each thread is inside its call
    call,         \* SpecConc: each thread's call (operation, arguments, locals)
    ret,          \* SpecConc: each thread's result
    boot,         \* SpecConc: the registry the threads started from
    removed,      \* what a call took out of the map and dropped: delete_collection's
                  \* collection (Spec), load_from_file's earlier map (SpecFile)
    input,        \* SpecParse: the text handed to parse_value; SpecCli: the line read
    instants      \* SpecSnap: the contents the registry has had since save_to_file
                  \* was called

vars == <<collections, file, fsWritable, last, pc, call, ret, boot, removed, input,
          instants>>

---------------------------------------------------------------------------
(* Bounds of the model. *)

\* The longest Vec<Record> a collection grows to.
MaxLen == 2

\* The collection names callers pass.
Names == {"users", "logs"}

\* The threads sharing the Arc<StorageEngine> in SpecConc.
Threads == {1, 2}

NoThread == 0

---------------------------------------------------------------------------
(* schema.rs: Value, Record. *)

IntegerV(n) == [tag |-> "Integer", int |-> n]
FloatV(f)   == [tag |-> "Float", float |-> f]
BoolV(b)    == [tag |-> "Bool", bool |-> b]
TextV(s)    == [tag |-> "Text", text |-> s]
DateV(d)    == [tag |-> "Date", date |-> d]

\* f64: a finite number (in thousandths), an infinity, or NaN.
Finite(milli) == [class |-> "finite", milli |-> milli]
Infinity      == [class |-> "inf", negative |-> FALSE]
NaN           == [class |-> "nan"]

Record(values) == [values |-> values]

\* The records callers pass to create_record and update_record.
Records ==
    { Record(<<IntegerV(1)>>), Record(<<FloatV(Infinity)>>),
      Record(<<TextV("bob"), BoolV(TRUE)>>) }

\* The i32 indexes callers pass: negative, in range, and past the end.
Indexes == -1 .. MaxLen

---------------------------------------------------------------------------
(* std: Option, Result, panic. *)

Some(v) == [some |-> TRUE, v |-> v]
None    == [some |-> FALSE]

Ok(v)          == [outcome |-> "Ok", value |-> v]
Err(kind, msg) == [outcome |-> "Err", kind |-> kind, msg |-> msg]
Panicked       == [outcome |-> "Panic"]

Unit == <<>>

\* DBError::StorageError(msg), the only DBError variant storage.rs returns
\* from the engine operations.
StorageError(msg) == Err("StorageError", msg)

---------------------------------------------------------------------------
(* `index as usize`: an i32 cast to a 64-bit usize sign-extends, so a      *)
(* negative index becomes 2^64 - |index|.  A usize is kept as four 16-bit  *)
(* limbs, most significant first, so that the 64-bit value is exact.       *)

Limb == 65536

AsUsize(i) ==
    IF i >= 0
    THEN <<0, 0, i \div Limb, i % Limb>>
    ELSE <<Limb - 1, Limb - 1,
           ((i + 2147483647 + 1) \div Limb) + (Limb \div 2),
           (i + 2147483647 + 1) % Limb>>

UsizeLess(a, b) ==
    \E k \in 1..4 : a[k] < b[k] /\ \A j \in 1..(k - 1) : a[j] = b[j]

\* The position (from 1) in a TLA+ sequence of a usize that is in bounds.
Position(u) == u[3] * Limb + u[4] + 1

\* slice bounds check: index < len
InBounds(i, vec) == UsizeLess(AsUsize(i), AsUsize(Len(vec)))

\* A get whose index wraps around the length, so that -1 addresses the last
\* element.
VecGetWrapping(vec, i) ==
    IF vec = <<>> THEN None ELSE Some(vec[(i % Len(vec)) + 1])

\* Vec::get(index as usize)
VecGet(vec, i) ==
    IF InBounds(i, vec) THEN Some(vec[Position(AsUsize(i))]) ELSE None

\* A push that puts the record in front (Vec::insert(0, record)).
VecPushFront(vec, r) == <<r>> \o vec

\* Vec::push
VecPush(vec, r) == Append(vec, r)

\* A store that always writes the first slot (vec[0] = record).
VecSetFirst(vec, i, r) == [vec EXCEPT ![1] = r]

\* vec[index] = record, on an index that is in bounds
VecSet(vec, i, r) == [vec EXCEPT ![Position(AsUsize(i))] = r]

\* A removal that drops the last element whatever the index (Vec::pop).
VecRemoveLast(vec, i) == SubSeq(vec, 1, Len(vec) - 1)

\* Vec::remove on an index that is in bounds: the later elements shift left
VecRemove(vec, i) ==
    LET p == Position(AsUsize(i))
    IN  [k \in 1..(Len(vec) - 1) |-> IF k < p THEN vec[k] ELSE vec[k + 1]]

---------------------------------------------------------------------------
(* std::sync::RwLock<T>: the protected value, the poison flag, and who     *)
(* holds the lock.                                                         *)

NewLock(v) == [value |-> v, poisoned |-> FALSE, writer |-> NoThread, readers |-> {}]

\* CollectionStorage { name, data: RwLock::new(records) }
NewCollection(name, records) == [name |-> name, data |-> NewLock(records)]

\* A removal that leaves the entry in the map.
MapRemoveNothing(map, name) == map

\* HashMap::insert / HashMap::remove / HashMap::new
MapInsert(map, k, v) == [x \in (DOMAIN map) \cup {k} |-> IF x = k THEN v ELSE map[x]]
MapRemove(map, k)    == [x \in (DOMAIN map) \ {k} |-> map[x]]
EmptyMap             == << >>

---------------------------------------------------------------------------
(* The snapshot file and serde_json.  A JSON text is kept as its syntax    *)
(* tree; a text that is no JSON at all is Unparsable.                      *)

JNull       == [t |-> "null"]
JBool(b)    == [t |-> "bool", b |-> b]
JInt(n)     == [t |-> "int", n |-> n]
JFloat(m)   == [t |-> "float", milli |-> m]
JStr(s)     == [t |-> "str", s |-> s]
JArr(items) == [t |-> "arr", items |-> items]
JObj(mem)   == [t |-> "obj", members |-> mem]
Unparsable  == [t |-> "invalid"]

\* The file system at the snapshot path: no file, a file that is not UTF-8
\* text (fs::read_to_string fails on it), or a text file.
NoFile       == [kind |-> "absent"]
BinaryFile   == [kind |-> "binary"]
TextFile(js) == [kind |-> "text", json |-> js]

\* chrono::NaiveDate as serde writes and reads it: an ISO 8601 date string.
DateStrings == {"2024-02-29"}

\* serde_json's Serializer::serialize_f64: a number that is not finite is
\* written as null.
SerializeF64(f) == IF f.class = "finite" THEN JFloat(f.milli) ELSE JNull

\* #[derive(Serialize)] enum Value: externally tagged, {"<Variant>": payload}
SerializeValue(v) ==
    JObj([k \in {v.tag} |->
            CASE v.tag = "Integer" -> JInt(v.int)
              [] v.tag = "Float"   -> SerializeF64(v.float)
              [] v.tag = "Bool"    -> JBool(v.bool)
              [] v.tag = "Text"    -> JStr(v.text)
              [] v.tag = "Date"    -> JStr(v.date)])

\* #[derive(Serialize)] struct Record { values }
SerializeRecord(r) ==
    JObj([values |-> JArr([k \in 1..Len(r.values) |-> SerializeValue(r.values[k])])])

\* #[derive(Serialize)] struct CollectionStorageHelper { name, data }
SerializeHelper(h) ==
    JObj([name |-> JStr(h.name),
          data |-> JArr([k \in 1..Len(h.data) |-> SerializeRecord(h.data[k])])])

\* serde_json::to_string(&HashMap<String, CollectionStorageHelper>)
to_string(helpers) ==
    JObj([n \in DOMAIN helpers |-> SerializeHelper(helpers[n])])

\* Deserialize for f64: any JSON number; null is not one.
DeserializeF64(j) ==
    CASE j.t = "float" -> Some(Finite(j.milli))
      [] j.t = "int"   -> Some(Finite(j.n * 1000))
      [] OTHER         -> None

\* #[derive(Deserialize)] enum Value: an object with exactly one member, named
\* after a variant, whose payload has the variant's type.
DeserializeValue(j) ==
    IF j.t # "obj" \/ Cardinality(DOMAIN j.members) # 1 THEN None
    ELSE LET k == CHOOSE x \in DOMAIN j.members : TRUE
             p == j.members[k]
         IN  CASE k = "Integer" /\ p.t = "int"  -> Some(IntegerV(p.n))
               [] k = "Float"                   ->
                    LET f == DeserializeF64(p)
                    IN  IF f.some THEN Some(FloatV(f.v)) ELSE None
               [] k = "Bool" /\ p.t = "bool"    -> Some(BoolV(p.b))
               [] k = "Text" /\ p.t = "str"     -> Some(TextV(p.s))
               [] k = "Date" /\ p.t = "str" /\ p.s \in DateStrings -> Some(DateV(p.s))
               [] OTHER                         -> None

\* Vec<Value>: a JSON array all of whose items deserialize.
DeserializeValues(j) ==
    IF j.t # "arr" THEN None
    ELSE IF \E k \in 1..Len(j.items) : ~DeserializeValue(j.items[k]).some THEN None
    ELSE Some([k \in 1..Len(j.items) |-> DeserializeValue(j.items[k]).v])

\* #[derive(Deserialize)] struct Record { values }: members it does not know
\* are skipped.
DeserializeRecord(j) ==
    IF j.t # "obj" \/ "values" \notin DOMAIN j.members THEN None
    ELSE LET vs == DeserializeValues(j.members["values"])
         IN  IF vs.some THEN Some(Record(vs.v)) ELSE None

\* Vec<Record>: a JSON array all of whose items deserialize.
DeserializeRecords(j) ==
    IF j.t # "arr" THEN None
    ELSE IF \E k \in 1..Len(j.items) : ~DeserializeRecord(j.items[k]).some THEN None
    ELSE Some([k \in 1..Len(j.items) |-> DeserializeRecord(j.items[k]).v])

\* #[derive(Deserialize)] struct CollectionStorageHelper { name, data }
DeserializeHelper(j) ==
    IF j.t # "obj" \/ ~({"name", "data"} \subseteq DOMAIN j.members) THEN None
    ELSE IF j.members["name"].t # "str" THEN None
    ELSE LET d == DeserializeRecords(j.members["data"])
         IN  IF d.some THEN Some([name |-> j.members["name"].s, data |-> d.v])
             ELSE None

\* serde_json::from_str::<HashMap<String, CollectionStorageHelper>>(&content)
from_str(j) ==
    IF j.t # "obj" THEN None
    ELSE IF \E n \in DOMAIN j.members : ~DeserializeHelper(j.members[n]).some THEN None
    ELSE Some([n \in DOMAIN j.members |-> DeserializeHelper(j.members[n]).v])

\* What a snapshot path holds before the engine first touches it: nothing, a
\* file that is not text, text that is not JSON, JSON of another shape, the
\* empty document, and documents written by hand or by an earlier run.
InitialFiles ==
    { NoFile, BinaryFile, TextFile(Unparsable), TextFile(JArr(<<>>)),
      TextFile(JObj([users |-> JObj([name |-> JStr("users")])])),
      TextFile(to_string(EmptyMap)),
      TextFile(to_string([users |-> [name |-> "users",
                                    data |-> <<Record(<<IntegerV(1)>>)>>]])),
      TextFile(to_string([logs |-> [name |-> "users", data |-> <<>>]])) }

---------------------------------------------------------------------------
(* StorageEngine: each operation as a function of the engine it is called  *)
(* on.  The result is the engine afterwards (reg), the value returned      *)
(* (res) and, for load and save, the file afterwards.                      *)

\* A thread that panics while it holds a write guard poisons the lock as the
\* guard is dropped during unwinding.
Poison(lock) == [lock EXCEPT !.poisoned = TRUE]

\* A panic inside update_record or delete_record: both the guard of the map
\* and the guard of the collection's data are live, so both locks are poisoned.
PanicHoldingBoth(reg, name) ==
    [Poison(reg) EXCEPT !.value[name].data = Poison(@)]

\* save_to_file's collections_helper: name -> CollectionStorageHelper
Helpers(map) ==
    [n \in DOMAIN map |-> [name |-> map[n].name, data |-> map[n].data.value]]

\* load_from_file's closure: CollectionStorageHelper -> CollectionStorage
FromHelpers(helpers) ==
    [n \in DOMAIN helpers |-> NewCollection(helpers[n].name, helpers[n].data)]

\* add_collection without its contains_key test: HashMap::insert replaces
\* the collection that is there.
add_collection_replacing(reg, name) ==
    IF reg.poisoned
    THEN [reg |-> reg, res |-> StorageError("Failed to write collection")]
    ELSE [reg |-> [reg EXCEPT !.value = MapInsert(@, name, NewCollection(name, <<>>))],
          res |-> Ok(Unit)]

add_collection(reg, name) ==
    IF reg.poisoned
    THEN [reg |-> reg, res |-> StorageError("Failed to write collection")]
    ELSE IF name \in DOMAIN reg.value
    THEN [reg |-> reg, res |-> StorageError("Collection already exists")]
    ELSE [reg |-> [reg EXCEPT !.value = MapInsert(@, name, NewCollection(name, <<>>))],
          res |-> Ok(Unit)]

\* read_collection that moves the records out of the collection
\* (std::mem::take) instead of cloning them.
read_collection_taking(reg, name) ==
    IF reg.poisoned
    THEN [reg |-> reg, res |-> StorageError("Failed to obtain readlock")]
    ELSE IF name \in DOMAIN reg.value
    THEN IF reg.value[name].data.poisoned
         THEN [reg |-> reg, res |-> StorageError("Failed to read collection")]
         ELSE [reg |-> [reg EXCEPT !.value[name].data.value = <<>>],
               res |-> Ok(reg.value[name].data.value)]
    ELSE [reg |-> reg, res |-> StorageError("Collection {collection_name} does not exist")]

read_collection(reg, name) ==
    IF reg.poisoned
    THEN [reg |-> reg, res |-> StorageError("Failed to obtain readlock")]
    ELSE IF name \in DOMAIN reg.value
    THEN IF reg.value[name].data.poisoned
         THEN [reg |-> reg, res |-> StorageError("Failed to read collection")]
         ELSE [reg |-> reg, res |-> Ok(reg.value[name].data.value)]
    ELSE [reg |-> reg, res |-> StorageError("Collection {collection_name} does not exist")]

\* delete_collection that empties the map (collections.clear()) when the name
\* is there.
delete_collection_clearing(reg, name) ==
    IF reg.poisoned
    THEN [reg |-> reg, res |-> StorageError("Failed to delete collection")]
    ELSE IF name \in DOMAIN reg.value
    THEN [reg |-> [reg EXCEPT !.value = EmptyMap], res |-> Ok(Unit)]
    ELSE [reg |-> reg, res |-> StorageError("Failed to delete collection")]

delete_collection(reg, name) ==
    IF reg.poisoned
    THEN [reg |-> reg, res |-> StorageError("Failed to delete collection")]
    ELSE IF name \in DOMAIN reg.value
    THEN [reg |-> [reg EXCEPT !.value = MapRemove(@, name)], res |-> Ok(Unit)]
    ELSE [reg |-> reg, res |-> StorageError("Failed to delete collection")]

\* keys is the order in which the HashMap yields its keys.
list_collections(reg, keys) ==
    IF reg.poisoned
    THEN [reg |-> reg, res |-> StorageError("Failed to list collections")]
    ELSE IF DOMAIN reg.value = {}
    THEN [reg |-> reg, res |-> Ok(<<>>)]
    ELSE [reg |-> reg, res |-> Ok(keys)]

\* create_record that makes the collection when the name is not in the map.
create_record_upserting(reg, name, record) ==
    IF reg.poisoned
    THEN [reg |-> reg, res |-> StorageError("Failed to get collect for record creation")]
    ELSE IF name \in DOMAIN reg.value
    THEN IF reg.value[name].data.poisoned
         THEN [reg |-> reg, res |-> StorageError("Failed to create record")]
         ELSE [reg |-> [reg EXCEPT !.value[name].data.value = VecPush(@, record)],
               res |-> Ok(Unit)]
    ELSE [reg |-> [reg EXCEPT !.value = MapInsert(@, name, NewCollection(name, <<record>>))],
          res |-> Ok(Unit)]

create_record(reg, name, record) ==
    IF reg.poisoned
    THEN [reg |-> reg, res |-> StorageError("Failed to get collect for record creation")]
    ELSE IF name \in DOMAIN reg.value
    THEN IF reg.value[name].data.poisoned
         THEN [reg |-> reg, res |-> StorageError("Failed to create record")]
         ELSE [reg |-> [reg EXCEPT !.value[name].data.value = VecPush(@, record)],
               res |-> Ok(Unit)]
    ELSE [reg |-> reg, res |-> StorageError("Collection {} does not exist")]

read_record(reg, name, index) ==
    IF reg.poisoned
    THEN [reg |-> reg, res |-> StorageError("Unable to find collection")]
    ELSE IF name \in DOMAIN reg.value
    THEN IF reg.value[name].data.poisoned
         THEN [reg |-> reg, res |-> StorageError("Unable to find record")]
         ELSE LET got == VecGet(reg.value[name].data.value, index)
              IN  IF got.some
                  THEN [reg |-> reg, res |-> Ok(got.v)]
                  ELSE [reg |-> reg, res |-> StorageError("Unable to access record")]
    ELSE [reg |-> reg, res |-> StorageError("Unable to find collection, {}")]

\* old_data[index as usize] = record panics when the index is out of bounds.
update_record(reg, name, index, record) ==
    IF reg.poisoned
    THEN [reg |-> reg, res |-> StorageError("Failed to update record")]
    ELSE IF name \in DOMAIN reg.value
    THEN IF reg.value[name].data.poisoned
         THEN [reg |-> reg, res |-> StorageError("Unable to find record location")]
         ELSE IF InBounds(index, reg.value[name].data.value)
         THEN LET stored == VecSet(reg.value[name].data.value, index, record)
              IN  [reg |-> [reg EXCEPT !.value[name].data.value = stored],
                   res |-> Ok(VecGet(stored, index).v)]
         ELSE [reg |-> PanicHoldingBoth(reg, name), res |-> Panicked]
    ELSE [reg |-> reg, res |-> StorageError("Unable to find record, {}")]

\* Vec::remove panics when the index is out of bounds.
delete_record(reg, name, index) ==
    IF reg.poisoned
    THEN [reg |-> reg, res |-> StorageError("Failed to delete record")]
    ELSE IF name \in DOMAIN reg.value
    THEN IF reg.value[name].data.poisoned
         THEN [reg |-> reg, res |-> StorageError("Failed to find record to delete")]
         ELSE IF InBounds(index, reg.value[name].data.value)
         THEN [reg |-> [reg EXCEPT !.value[name].data.value = VecRemove(@, index)],
               res |-> Ok(VecGet(reg.value[name].data.value, index).v)]
         ELSE [reg |-> PanicHoldingBoth(reg, name), res |-> Panicked]
    ELSE [reg |-> reg, res |-> StorageError("Unable to find record to delete at {}")]

\* File::create(path) then write_all: the file is truncated and rewritten,
\* or the create fails and the file is as it was.
create_empty_file(reg, f, writable) ==
    IF ~writable
    THEN [reg |-> reg, file |-> f, res |-> StorageError("File::create")]
    ELSE IF reg.poisoned
    THEN [reg |-> reg, file |-> TextFile(to_string(EmptyMap)),
          res |-> StorageError("Failed to acquire write lock")]
    ELSE [reg |-> [reg EXCEPT !.value = EmptyMap],
          file |-> TextFile(to_string(EmptyMap)), res |-> Ok(Unit)]

\* load_from_file that hands the error of fs::read_to_string to its caller.
load_from_file_propagating(reg, f, writable) ==
    IF f.kind # "text"
    THEN [reg |-> reg, file |-> f, res |-> Err("std::io::Error", "read_to_string")]
    ELSE IF f.json = Unparsable \/ ~from_str(f.json).some
    THEN [reg |-> reg, file |-> f, res |-> Err("serde_json::Error", "from_str")]
    ELSE IF reg.poisoned
    THEN [reg |-> reg, file |-> f, res |-> StorageError("Uhoh")]
    ELSE [reg |-> [reg EXCEPT !.value = FromHelpers(from_str(f.json).v)],
          file |-> f, res |-> Ok(Unit)]

\* load_from_file that adds the parsed collections to the map it finds
\* (collections.extend(..)) instead of assigning the new map.
load_from_file_extending(reg, f, writable) ==
    IF f.kind # "text"
    THEN create_empty_file(reg, f, writable)
    ELSE IF f.json = Unparsable \/ ~from_str(f.json).some
    THEN [reg |-> reg, file |-> f, res |-> Err("serde_json::Error", "from_str")]
    ELSE IF reg.poisoned
    THEN [reg |-> reg, file |-> f, res |-> StorageError("Uhoh")]
    ELSE LET parsed == FromHelpers(from_str(f.json).v)
         IN  [reg |-> [reg EXCEPT !.value =
                         [n \in (DOMAIN @) \cup (DOMAIN parsed) |->
                            IF n \in DOMAIN parsed THEN parsed[n] ELSE @[n]]],
              file |-> f, res |-> Ok(Unit)]

load_from_file(reg, f, writable) ==
    IF f.kind # "text"
    THEN create_empty_file(reg, f, writable)
    ELSE IF f.json = Unparsable \/ ~from_str(f.json).some
    THEN [reg |-> reg, file |-> f, res |-> Err("serde_json::Error", "from_str")]
    ELSE IF reg.poisoned
    THEN [reg |-> reg, file |-> f, res |-> StorageError("Uhoh")]
    ELSE [reg |-> [reg EXCEPT !.value = FromHelpers(from_str(f.json).v)],
          file |-> f, res |-> Ok(Unit)]

\* .expect("Reason") panics on a poisoned data lock; the guard of the map is
\* a read guard, which poisons nothing.
save_to_file(reg, f, writable) ==
    IF reg.poisoned
    THEN [reg |-> reg, file |-> f, res |-> StorageError("Failed to acquire read lock")]
    ELSE IF \E n \in DOMAIN reg.value : reg.value[n].data.poisoned
    THEN [reg |-> reg, file |-> f, res |-> Panicked]
    ELSE IF ~writable
    THEN [reg |-> reg, file |-> f, res |-> StorageError("File::create")]
    ELSE [reg |-> reg, file |-> TextFile(to_string(Helpers(reg.value))), res |-> Ok(Unit)]

\* init_storage()
init_storage == NewLock(EmptyMap)

---------------------------------------------------------------------------
(* parse_value and the std parsers it tries (storage.rs:127-139).  A &str  *)
(* is the sequence of its chars; a String is a TLA+ string.                *)

\* The text lengths up to which every text over Alphabet is tried.
MaxText == 3

\* Chars of which the short texts are made: a digit, the signs, the point,
\* the exponent mark and a letter.
Alphabet == {"1", "0", "-", "+", ".", "e", "a"}

\* Texts chosen for the parsers' cases: the literals, the i32 limits, the
\* forms of a float, the words f64 accepts, and words it does not.
Literals ==
    { <<"t", "r", "u", "e">>, <<"f", "a", "l", "s", "e">>,
      <<"T", "R", "U", "E">>, <<"T", "r", "u", "e">>, <<"4", "2">>,
      <<"-", "7">>, <<"+", "5">>, <<"0", "0", "7">>, <<"-", "0">>,
      <<"2", "1", "4", "7", "4", "8", "3", "6", "4", "7">>,
      <<"2", "1", "4", "7", "4", "8", "3", "6", "4", "8">>,
      <<"-", "2", "1", "4", "7", "4", "8", "3", "6", "4", "8">>,
      <<"-", "2", "1", "4", "7", "4", "8", "3", "6", "4", "9">>,
      <<"3", ".", "1", "4">>, <<"-", "0", ".", "5">>, <<"5", ".">>,
      <<".", "5">>, <<"1", "e", "3">>, <<"1", "E", "3">>,
      <<"2", ".", "5", "e", "-", "1">>, <<"1", "e", "4", "0", "0">>,
      <<"1", "e", "-", "4", "0", "0">>, <<"2", "e", "3", "0", "8">>,
      <<"1", "e">>, <<"e", "5">>, <<"1", ".", "2", ".", "3">>,
      <<"0", "x", "1", "0">>, <<"1", "2", "a", "b", "c">>,
      <<"h", "e", "l", "l", "o">>, <<"i", "n", "f">>, <<"-", "i", "n", "f">>,
      <<"+", "I", "N", "F">>, <<"I", "n", "f", "i", "n", "i", "t", "y">>,
      <<"n", "a", "n">>, <<"N", "a", "N">>, <<"-", "n", "a", "n">>,
      <<"i", "n", "f", "i", "n", "i", "t">>,
      <<"2", "0", "2", "4", "-", "0", "2", "-", "2", "9">>,
      <<"1", "_", "0", "0", "0">>, <<"t", "r", "u">> }

\* The texts handed to parse_value.
Texts ==
    UNION { [1..k -> Alphabet] : k \in 0..MaxText } \cup Literals

\* String::from(&str)
RECURSIVE ToOwned(_)
ToOwned(s) == IF s = <<>> THEN "" ELSE Head(s) \o ToOwned(Tail(s))

\* char::to_digit(10)
ToDigit ==
    ("0" :> 0) @@ ("1" :> 1) @@ ("2" :> 2) @@ ("3" :> 3) @@ ("4" :> 4) @@
    ("5" :> 5) @@ ("6" :> 6) @@ ("7" :> 7) @@ ("8" :> 8) @@ ("9" :> 9)

IsDigit(c) == c \in DOMAIN ToDigit

\* u8::to_ascii_lowercase
Upper ==
    ("A" :> "a") @@ ("B" :> "b") @@ ("C" :> "c") @@ ("D" :> "d") @@ ("E" :> "e") @@
    ("F" :> "f") @@ ("G" :> "g") @@ ("H" :> "h") @@ ("I" :> "i") @@ ("J" :> "j") @@
    ("K" :> "k") @@ ("L" :> "l") @@ ("M" :> "m") @@ ("N" :> "n") @@ ("O" :> "o") @@
    ("P" :> "p") @@ ("Q" :> "q") @@ ("R" :> "r") @@ ("S" :> "s") @@ ("T" :> "t") @@
    ("U" :> "u") @@ ("V" :> "v") @@ ("W" :> "w") @@ ("X" :> "x") @@ ("Y" :> "y") @@
    ("Z" :> "z")

ToAsciiLowercase(s) ==
    [k \in 1..Len(s) |-> IF s[k] \in DOMAIN Upper THEN Upper[s[k]] ELSE s[k]]

\* <bool as FromStr>::from_str: "true" or "false", nothing else.
parse_bool(s) ==
    IF s = <<"t", "r", "u", "e">> THEN Some(TRUE)
    ELSE IF s = <<"f", "a", "l", "s", "e">> THEN Some(FALSE)
    ELSE None

I32Max == 2147483647
I32Min == -I32Max - 1

\* The digit loop of <i32 as FromStr>::from_str: checked_mul(10), then
\* checked_add(digit) for a positive number and checked_sub(digit) for a
\* negative one; a char that is no digit, or an overflow, is an error.
RECURSIVE ParseDigits(_, _, _)
ParseDigits(s, acc, negative) ==
    IF s = <<>> THEN Some(acc)
    ELSE IF ~IsDigit(Head(s)) THEN None
    ELSE IF acc > I32Max \div 10 \/ acc < -(I32Max \div 10) THEN None
    ELSE LET d == ToDigit[Head(s)]
         IN  IF negative
             THEN IF acc * 10 < I32Min + d THEN None
                  ELSE ParseDigits(Tail(s), acc * 10 - d, negative)
             ELSE IF acc * 10 > I32Max - d THEN None
                  ELSE ParseDigits(Tail(s), acc * 10 + d, negative)

\* <i32 as FromStr>::from_str: an optional sign, then digits; the empty text
\* and a sign alone are errors.
parse_i32(s) ==
    IF s = <<>> \/ s = <<"+">> \/ s = <<"-">> THEN None
    ELSE IF Head(s) = "-" THEN ParseDigits(Tail(s), 0, TRUE)
    ELSE IF Head(s) = "+" THEN ParseDigits(Tail(s), 0, FALSE)
    ELSE ParseDigits(s, 0, FALSE)

\* The longest prefix of s made of digits.
RECURSIVE LeadingDigits(_)
LeadingDigits(s) ==
    IF s = <<>> \/ ~IsDigit(Head(s)) THEN <<>>
    ELSE <<Head(s)>> \o LeadingDigits(Tail(s))

Skip(s, n) == SubSeq(s, n + 1, Len(s))

\* dec2flt keeps the exponent's digits while the exponent is below this.
ExponentCap == 65536

RECURSIVE ExponentValue(_, _)
ExponentValue(s, acc) ==
    IF s = <<>> THEN acc
    ELSE ExponentValue(Tail(s),
                       IF acc < ExponentCap THEN acc * 10 + ToDigit[Head(s)] ELSE acc)

\* dec2flt's parse_number on the text after the sign: digits, optionally a
\* point and digits (a digit on one side at least), optionally e or E with an
\* optional sign and digits (one at least), then the end of the text.
\* Gives the digits of the mantissa and the power of ten.
parse_number(s) ==
    LET whole    == LeadingDigits(s)
        s1       == Skip(s, Len(whole))
        point    == s1 # <<>> /\ Head(s1) = "."
        fraction == IF point THEN LeadingDigits(Tail(s1)) ELSE <<>>
        s2       == IF point THEN Skip(s1, 1 + Len(fraction)) ELSE s1
        marked   == s2 # <<>> /\ Head(s2) \in {"e", "E"}
        s3       == IF marked THEN Tail(s2) ELSE s2
        signed   == marked /\ s3 # <<>> /\ Head(s3) \in {"+", "-"}
        s4       == IF signed THEN Tail(s3) ELSE s3
        power    == IF marked THEN LeadingDigits(s4) ELSE <<>>
        s5       == Skip(s4, Len(power))
        e        == IF signed /\ Head(s3) = "-"
                    THEN -ExponentValue(power, 0) ELSE ExponentValue(power, 0)
    IN  IF Len(whole) + Len(fraction) = 0 THEN None
        ELSE IF marked /\ power = <<>> THEN None
        ELSE IF s5 # <<>> THEN None
        ELSE Some([digits |-> [k \in 1..(Len(whole) + Len(fraction)) |->
                                 ToDigit[(whole \o fraction)[k]]],
                   exp    |-> e - Len(fraction)])

\* A sequence of digits without its leading and without its trailing zeros.
RECURSIVE StripLeading(_)
StripLeading(ds) ==
    IF ds # <<>> /\ Head(ds) = 0 THEN StripLeading(Tail(ds)) ELSE ds

RECURSIVE TrailingZeros(_)
TrailingZeros(ds) ==
    IF ds # <<>> /\ ds[Len(ds)] = 0
    THEN 1 + TrailingZeros(SubSeq(ds, 1, Len(ds) - 1)) ELSE 0

\* The digits of the decimal expansion of f64::MAX rounded up: a decimal of
\* 309 digits before the point is finite as an f64 when it is below these.
F64Limit == <<1, 7, 9, 7, 6, 9, 3, 1, 3, 4, 8, 6, 2, 3, 1, 5, 8>>

\* Digit sequences compared as decimal fractions 0.d1d2d3...
RECURSIVE FractionLess(_, _)
FractionLess(a, b) ==
    IF b = <<>> THEN FALSE
    ELSE IF a = <<>> THEN \E k \in 1..Len(b) : b[k] # 0
    ELSE IF Head(a) # Head(b) THEN Head(a) < Head(b)
    ELSE FractionLess(Tail(a), Tail(b))

\* digits * 10^zeros as a number, for a value that fits the thousandths.
RECURSIVE DigitsValue(_, _, _)
DigitsValue(ds, zeros, acc) ==
    IF ds # <<>> THEN DigitsValue(Tail(ds), zeros, acc * 10 + Head(ds))
    ELSE IF zeros > 0 THEN DigitsValue(ds, zeros - 1, acc * 10)
    ELSE acc

\* The f64 nearest to (+/-) digits * 10^exp.  Past f64::MAX it is an
\* infinity and below the subnormals it is zero (dec2flt returns Ok for
\* both).  A finite value is kept in thousandths when it is a multiple of a
\* thousandth below a million, and as its decimal otherwise.
ToF64(negative, digits, exp) ==
    LET lead   == StripLeading(digits)
        zeros  == TrailingZeros(lead)
        ds     == SubSeq(lead, 1, Len(lead) - zeros)
        e      == exp + zeros
        before == Len(ds) + e
    IN  IF ds = <<>> \/ before < -324 THEN Finite(0)
        ELSE IF before > 309 \/ (before = 309 /\ ~FractionLess(ds, F64Limit))
        THEN [class |-> "inf", negative |-> negative]
        ELSE IF e >= -3 /\ before <= 6
        THEN Finite((IF negative THEN -1 ELSE 1) * DigitsValue(ds, e + 3, 0))
        ELSE [class |-> "finite", negative |-> negative, digits |-> ds, exp |-> e]

\* <f64 as FromStr>::from_str (dec2flt): an optional sign, then a number, or
\* inf, infinity or nan in any case.
parse_f64(s) ==
    IF s = <<>> THEN None
    ELSE LET negative == Head(s) = "-"
             rest     == IF Head(s) \in {"+", "-"} THEN Tail(s) ELSE s
             word     == ToAsciiLowercase(rest)
             number   == parse_number(rest)
         IN  IF number.some THEN Some(ToF64(negative, number.v.digits, number.v.exp))
             ELSE IF word \in {<<"i", "n", "f">>, <<"i", "n", "f", "i", "n", "i", "t", "y">>}
             THEN Some([class |-> "inf", negative |-> negative])
             ELSE IF word = <<"n", "a", "n">> THEN Some(NaN)
             ELSE None

\* <String as FromStr>::from_str: never fails.
parse_String(s) == Some(ToOwned(s))

\* StorageEngine::parse_value
parse_value(s) ==
    IF parse_bool(s).some THEN Ok(BoolV(parse_bool(s).v))
    ELSE IF parse_i32(s).some THEN Ok(IntegerV(parse_i32(s).v))
    ELSE IF parse_f64(s).some THEN Ok(FloatV(parse_f64(s).v))
    ELSE IF parse_String(s).some THEN Ok(TextV(parse_String(s).v))
    ELSE Err("SchemaError", "Something went wrong with parsing")

---------------------------------------------------------------------------
(* Spec: the calls of a caller that holds the handle, one after the other. *)

NoRecord == Record(<<>>)

Called(op, name, index, record, res) ==
    [op |-> op, name |-> name, index |-> index, record |-> record, res |-> res]

\* The orders in which a HashMap may yield the keys it holds.
KeyOrders(map) ==
    { s \in [1..Cardinality(DOMAIN map) -> DOMAIN map] :
        \A i, j \in DOMAIN s : i # j => s[i] # s[j] }

NoCall == [op |-> "none", name |-> "", index |-> 0, record |-> NoRecord]

Idle ==
    /\ pc = [t \in Threads |-> "idle"]
    /\ call = [t \in Threads |-> NoCall]
    /\ ret = [t \in Threads |-> Ok(Unit)]

Init ==
    /\ collections = init_storage
    /\ file = NoFile
    /\ fsWritable = TRUE
    /\ last = Called("init_storage", "", 0, NoRecord, Ok(Unit))
    /\ boot = EmptyMap
    /\ removed = None
    /\ input = <<>>
    /\ instants = {}
    /\ Idle

\* A panic unwinds the calling thread.  Spec's caller is one thread (main.rs
\* runs cli_interface on the main thread), so no call follows a panic; what
\* the other threads of a process see after one is SpecConc's.
Alive == last.res.outcome # "Panic"

\* delete_collection's collections.remove(name) hands back the collection it
\* took out of the map, and the function drops it.  What was dropped is kept
\* here while the next call is an add_collection of the same name (then
\* recreated is set), and forgotten at the call after that.
Removed(c) ==
    IF c.op = "delete_collection" /\ c.res = Ok(Unit)
    THEN [some |-> TRUE, collection |-> collections.value[c.name], recreated |-> FALSE]
    ELSE IF /\ c.op = "add_collection"
            /\ last.op = "delete_collection" /\ last.res = Ok(Unit)
            /\ last.name = c.name
    THEN [removed EXCEPT !.recreated = TRUE]
    ELSE None

AddCollection ==
    /\ Alive
    /\ \E n \in Names :
           LET r == add_collection(collections, n)
           IN  /\ collections' = r.reg
               /\ last' = Called("add_collection", n, 0, NoRecord, r.res)
               /\ removed' = Removed(last')
               /\ UNCHANGED <<file, fsWritable, pc, call, ret, boot, input, instants>>

ReadCollection ==
    /\ Alive
    /\ \E n \in Names :
           LET r == read_collection(collections, n)
           IN  /\ collections' = r.reg
               /\ last' = Called("read_collection", n, 0, NoRecord, r.res)
               /\ removed' = Removed(last')
               /\ UNCHANGED <<file, fsWritable, pc, call, ret, boot, input, instants>>

DeleteCollection ==
    /\ Alive
    /\ \E n \in Names :
           LET r == delete_collection(collections, n)
           IN  /\ collections' = r.reg
               /\ last' = Called("delete_collection", n, 0, NoRecord, r.res)
               /\ removed' = Removed(last')
               /\ UNCHANGED <<file, fsWritable, pc, call, ret, boot, input, instants>>

ListCollections ==
    /\ Alive
    /\ \E keys \in KeyOrders(collections.value) :
           LET r == list_collections(collections, keys)
           IN  /\ collections' = r.reg
               /\ last' = Called("list_collections", "", 0, NoRecord, r.res)
               /\ removed' = Removed(last')
               /\ UNCHANGED <<file, fsWritable, pc, call, ret, boot, input, instants>>

\* The model stops growing a collection at MaxLen records.
CreateRecord ==
    /\ Alive
    /\ \E n \in Names, rec \in Records :
           /\ n \in DOMAIN collections.value
                 => Len(collections.value[n].data.value) < MaxLen
           /\ LET r == create_record(collections, n, rec)
              IN  /\ collections' = r.reg
                  /\ last' = Called("create_record", n, 0, rec, r.res)
                  /\ removed' = Removed(last')
                  /\ UNCHANGED <<file, fsWritable, pc, call, ret, boot, input, instants>>

ReadRecord ==
    /\ Alive
    /\ \E n \in Names, i \in Indexes :
           LET r == read_record(collections, n, i)
           IN  /\ collections' = r.reg
               /\ last' = Called("read_record", n, i, NoRecord, r.res)
               /\ removed' = Removed(last')
               /\ UNCHANGED <<file, fsWritable, pc, call, ret, boot, input, instants>>

UpdateRecord ==
    /\ Alive
    /\ \E n \in Names, i \in Indexes, rec \in Records :
           LET r == update_record(collections, n, i, rec)
           IN  /\ collections' = r.reg
               /\ last' = Called("update_record", n, i, rec, r.res)
               /\ removed' = Removed(last')
               /\ UNCHANGED <<file, fsWritable, pc, call, ret, boot, input, instants>>

DeleteRecord ==
    /\ Alive
    /\ \E n \in Names, i \in Indexes :
           LET r == delete_record(collections, n, i)
           IN  /\ collections' = r.reg
               /\ last' = Called("delete_record", n, i, NoRecord, r.res)
               /\ removed' = Removed(last')
               /\ UNCHANGED <<file, fsWritable, pc, call, ret, boot, input, instants>>

Next ==
    \/ AddCollection
    \/ ReadCollection
    \/ DeleteCollection
    \/ ListCollections
    \/ CreateRecord
    \/ ReadRecord
    \/ UpdateRecord
    \/ DeleteRecord

Spec == Init /\ [][Next]_vars

---------------------------------------------------------------------------
(* SpecParse: parse_value on the texts a caller hands it.                  *)

InitParse ==
    /\ collections = init_storage
    /\ file = NoFile
    /\ fsWritable = TRUE
    /\ last = Called("init_storage", "", 0, NoRecord, Ok(Unit))
    /\ boot = EmptyMap
    /\ removed = None
    /\ input = <<>>
    /\ instants = {}
    /\ Idle

ParseValue ==
    /\ \E s \in Texts :
           /\ input' = s
           /\ last' = Called("parse_value", "", 0, NoRecord, parse_value(s))
    /\ UNCHANGED <<collections, file, fsWritable, pc, call, ret, boot, removed, instants>>

NextParse == ParseValue

SpecParse == InitParse /\ [][NextParse]_vars

---------------------------------------------------------------------------
(* main.rs: cli_interface.  One turn of its loop reads a line, trims it,   *)
(* splits it into words and runs the command the words name.  A line is    *)
(* the sequence of its chars.                                              *)

\* The longest Vec<Record> a collection grows to in SpecCli.
MaxRows == 1

\* str::trim
RECURSIVE TrimStart(_)
TrimStart(s) == IF s # <<>> /\ Head(s) = " " THEN TrimStart(Tail(s)) ELSE s

RECURSIVE TrimEnd(_)
TrimEnd(s) ==
    IF s # <<>> /\ s[Len(s)] = " " THEN TrimEnd(SubSeq(s, 1, Len(s) - 1)) ELSE s

Trim(s) == TrimEnd(TrimStart(s))

\* The longest prefix of s without whitespace.
RECURSIVE LeadingWord(_)
LeadingWord(s) ==
    IF s = <<>> \/ Head(s) = " " THEN <<>>
    ELSE <<Head(s)>> \o LeadingWord(Tail(s))

\* str::split_whitespace().collect()
RECURSIVE SplitWhitespace(_)
SplitWhitespace(s) ==
    LET t == TrimStart(s)
    IN  IF t = <<>> THEN <<>>
        ELSE <<LeadingWord(t)>> \o SplitWhitespace(Skip(t, Len(LeadingWord(t))))

\* str::find(pattern): the byte offset of the first match.
Find(s, pattern) ==
    LET at == { k \in 0..(Len(s) - Len(pattern)) :
                  SubSeq(s, k + 1, k + Len(pattern)) = pattern }
    IN  IF at = {} THEN None
        ELSE Some(CHOOSE k \in at : \A j \in at : k <= j)

\* words joined by single spaces
RECURSIVE Unwords(_)
Unwords(ws) ==
    IF ws = <<>> THEN <<>>
    ELSE IF Len(ws) = 1 THEN ws[1]
    ELSE ws[1] \o <<" ">> \o Unwords(Tail(ws))

\* The command words of cli_interface.
Word ==
    [ col |-> <<"c", "o", "l">>, collection |-> <<"c", "o", "l", "l", "e", "c", "t", "i", "o", "n">>,
      rec |-> <<"r", "e", "c">>, record |-> <<"r", "e", "c", "o", "r", "d">>,
      create |-> <<"c", "r", "e", "a", "t", "e">>, read |-> <<"r", "e", "a", "d">>,
      update |-> <<"u", "p", "d", "a", "t", "e">>, delete |-> <<"d", "e", "l", "e", "t", "e">>,
      list |-> <<"l", "i", "s", "t">>, exit |-> <<"e", "x", "i", "t">>,
      save |-> <<"s", "a", "v", "e">>, help |-> <<"h", "e", "l", "p">> ]

\* The collection names, record texts and indexes typed at the prompt.
CliNames == {<<"u", "s", "e", "r", "s">>, <<"d", "e", "l", "e", "t", "e">>}
CliTexts == {<<"4", "2">>}
CliIndexes == {<<"0">>, <<"-", "1">>, <<"x">>}

\* The lines typed at the prompt.
Lines ==
    { <<>>, <<" ">>, Word.exit, Word.save, Word.help, <<"d", "r", "o", "p">>, Word.col, Word.rec,
      Unwords(<<Word.col, Word.list>>), Unwords(<<Word.col, Word.delete>>),
      Unwords(<<Word.col, Word.help>>), Unwords(<<Word.rec, Word.help>>) }
    \cup { Unwords(<<c, sub, n>>) :
             c \in {Word.col, Word.collection},
             sub \in {Word.create, Word.delete, Word.read}, n \in CliNames }
    \cup { Unwords(<<r, Word.create, n>>) \o tail :
             r \in {Word.rec, Word.record}, n \in CliNames,
             tail \in {<<>>} \cup { <<" ">> \o t : t \in CliTexts } }
    \cup { <<" ">> \o Unwords(<<Word.rec, Word.create>>) \o <<" ", " ">> \o n \o <<" ">> \o t \o <<" ">> :
             n \in CliNames, t \in CliTexts }
    \cup { Unwords(<<Word.rec, sub, n, i>>) :
             sub \in {Word.read, Word.delete}, n \in CliNames, i \in CliIndexes }
    \cup { Unwords(<<Word.rec, Word.update, n, i>>) \o tail :
             n \in CliNames, i \in CliIndexes,
             tail \in {<<>>} \cup { <<" ">> \o t : t \in CliTexts } }

\* What a command line asks for, as the arm of the match works it out from
\* the words: a call of the engine with its arguments, nothing (a usage or
\* unknown-command message), or a panic of cli_interface itself.
EngineCommand(op, name, index, record) ==
    [kind |-> "call", op |-> op, name |-> name, index |-> index, record |-> record]

Message(what) == [kind |-> "message", what |-> what]
CliPanic(what) == [kind |-> "panic", what |-> what]
CliReturn(what) == [kind |-> "return", what |-> what]

\* let start_index = input.find(collection_name).unwrap();
\* let data = storage.parse_value(input[start_index+2..].trim());
RecordText(line, collection_name) ==
    LET start_index == Find(line, collection_name).v
    IN  IF start_index + 2 > Len(line) THEN None
        ELSE Some(Trim(Skip(line, start_index + 2)))

\* let data = storage.parse_value(..)?; then the call with vec![data].
DataCommand(op, name, index, data) ==
    IF data.outcome # "Ok" THEN CliReturn("data?")
    ELSE EngineCommand(op, name, index, Record(<<data.value>>))

\* input[start_index+2..] panics past the end of the line.
TextCommand(op, name, index, text) ==
    IF ~text.some THEN CliPanic("input[start_index+2..]")
    ELSE DataCommand(op, name, index, parse_value(text.v))

\* let index = args[3].parse::<i32>().unwrap();
IndexCommand(op, name, index) ==
    IF ~index.some THEN CliPanic("unwrap")
    ELSE EngineCommand(op, name, index.v, NoRecord)

UpdateCommand(line, collection_name, index) ==
    IF ~index.some THEN CliPanic("unwrap")
    ELSE TextCommand("update_record", ToOwned(collection_name), index.v,
                     RecordText(line, collection_name))

\* The "rec" | "record" arm, up to its call of the engine.
rec_command(line, args) ==
    IF Len(args) < 2 THEN CliPanic("args[1]")
    ELSE CASE args[2] = Word.create ->
                IF Len(args) < 4 THEN Message("usage")
                ELSE TextCommand("create_record", ToOwned(args[3]), 0,
                                 RecordText(line, args[3]))
           [] args[2] = Word.update ->
                IF Len(args) < 5 THEN Message("usage")
                ELSE UpdateCommand(line, args[3], parse_i32(args[4]))
           [] args[2] = Word.read ->
                IF Len(args) # 4 THEN Message("usage")
                ELSE IndexCommand("read_record", ToOwned(args[3]), parse_i32(args[4]))
           [] args[2] = Word.delete ->
                IF Len(args) # 4 THEN Message("usage")
                ELSE IndexCommand("delete_record", ToOwned(args[3]), parse_i32(args[4]))
           [] OTHER -> Message("unknown")

\* The "col" | "collection" arm, up to its call of the engine.
col_command(args) ==
    IF Len(args) < 2 THEN CliPanic("args[1]")
    ELSE CASE args[2] = Word.create ->
                IF Len(args) # 3 THEN Message("usage")
                ELSE EngineCommand("add_collection", ToOwned(args[3]), 0, NoRecord)
           [] args[2] = Word.delete ->
                IF Len(args) # 3 THEN Message("usage")
                ELSE EngineCommand("delete_collection", ToOwned(args[2]), 0, NoRecord)
           [] args[2] = Word.read ->
                IF Len(args) # 3 THEN Message("usage")
                ELSE EngineCommand("read_collection", ToOwned(args[3]), 0, NoRecord)
           [] args[2] = Word.list ->
                EngineCommand("list_collections", "", 0, NoRecord)
           [] OTHER -> Message("unknown")

\* The operation a call names, on the engine as the caller finds it.
Apply(c, reg) ==
    CASE c.op = "add_collection"    -> add_collection(reg, c.name)
      [] c.op = "read_collection"   -> read_collection(reg, c.name)
      [] c.op = "delete_collection" -> delete_collection(reg, c.name)
      [] c.op = "create_record"     -> create_record(reg, c.name, c.record)
      [] c.op = "read_record"       -> read_record(reg, c.name, c.index)
      [] c.op = "update_record"     -> update_record(reg, c.name, c.index, c.record)
      [] c.op = "delete_record"     -> delete_record(reg, c.name, c.index)

\* What one turn of the loop did: the engine and the file it leaves, the
\* call it made on the engine (none when the command makes none) with the
\* call's result, and how the turn ended: the loop goes on, cli_interface
\* returns, or the thread panics.
Turn(reg, f, made, flow) == [reg |-> reg, file |-> f, made |-> made, flow |-> flow]

NoEngineCall(what, res) == Called(what, "", 0, NoRecord, res)

\* The arm's call of the engine and its match on the result (both branches
\* print); a panic inside the engine unwinds the thread.  keys is the order
\* in which the HashMap yields its keys.
Run(reg, f, command, keys) ==
    CASE command.kind = "call" ->
           LET r == IF command.op = "list_collections"
                    THEN list_collections(reg, keys)
                    ELSE Apply(command, reg)
           IN  Turn(r.reg, f,
                    Called(command.op, command.name, command.index, command.record, r.res),
                    IF r.res.outcome = "Panic" THEN "panic" ELSE "continue")
      [] command.kind = "message" -> Turn(reg, f, NoEngineCall(command.what, Ok(Unit)), "continue")
      [] command.kind = "return"  -> Turn(reg, f, NoEngineCall(command.what, Ok(Unit)), "return")
      [] command.kind = "panic"   -> Turn(reg, f, NoEngineCall(command.what, Panicked), "panic")

\* The "save" arm: storage.save_to_file("Db.json").expect("Failed to save")
save_command(reg, f, writable) ==
    LET r == save_to_file(reg, f, writable)
    IN  Turn(r.reg, r.file, Called("save_to_file", "", 0, NoRecord, r.res),
             IF r.res.outcome = "Ok" THEN "continue" ELSE "panic")

---------------------------------------------------------------------------
(* SpecCli: main() and the loop of cli_interface on the main thread        *)
(* (thread 1), one line a turn.                                            *)

MainThread == 1

\* main(): init_storage(), load_from_file("Db.json") where no file is (the
\* file is created), then cli_interface.
InitCli ==
    /\ collections = load_from_file(init_storage, NoFile, TRUE).reg
    /\ file = load_from_file(init_storage, NoFile, TRUE).file
    /\ fsWritable = TRUE
    /\ last = Called("load_from_file", "", 0, NoRecord,
                     load_from_file(init_storage, NoFile, TRUE).res)
    /\ boot = EmptyMap
    /\ removed = None
    /\ input = <<>>
    /\ instants = {}
    /\ pc = [t \in Threads |-> IF t = MainThread THEN "continue" ELSE "idle"]
    /\ call = [t \in Threads |-> NoCall]
    /\ ret = [t \in Threads |-> Ok(Unit)]

\* io::stdin().read_line(&mut input); input.trim(); split_whitespace(),
\* for each line of Lines.
ArgsOf == [line \in Lines |-> SplitWhitespace(Trim(line))]

Args(line) == ArgsOf[line]

\* What the lines for the "rec" and for the "col" arm ask for.
RecCommands ==
    [line \in { l \in Lines : ArgsOf[l] # <<>> /\ ArgsOf[l][1] \in {Word.rec, Word.record} } |->
        rec_command(Trim(line), ArgsOf[line])]

ColCommands ==
    [line \in { l \in Lines : ArgsOf[l] # <<>> /\ ArgsOf[l][1] \in {Word.col, Word.collection} } |->
        col_command(ArgsOf[line])]

\* The turn's effect.  The model stops growing a collection at MaxRows
\* records.
Take(line, turn) ==
    /\ \A n \in DOMAIN turn.reg.value : Len(turn.reg.value[n].data.value) <= MaxRows
    /\ input' = line
    /\ collections' = turn.reg
    /\ file' = turn.file
    /\ last' = turn.made
    /\ pc' = [pc EXCEPT ![MainThread] = turn.flow]
    /\ UNCHANGED <<fsWritable, call, ret, boot, removed, instants>>

\* if args.is_empty() { continue; }
EmptyLine ==
    /\ pc[MainThread] = "continue"
    /\ \E line \in Lines :
           /\ Args(line) = <<>>
           /\ Take(line, Turn(collections, file, NoEngineCall("continue", Ok(Unit)), "continue"))

\* "exit" => break Ok(())
ExitCommand ==
    /\ pc[MainThread] = "continue"
    /\ \E line \in Lines :
           /\ Args(line) # <<>> /\ Args(line)[1] = Word.exit
           /\ Take(line, Turn(collections, file, NoEngineCall("exit", Ok(Unit)), "return"))

SaveCommand ==
    /\ pc[MainThread] = "continue"
    /\ \E line \in Lines :
           /\ Args(line) # <<>> /\ Args(line)[1] = Word.save
           /\ Take(line, save_command(collections, file, fsWritable))

HelpCommand ==
    /\ pc[MainThread] = "continue"
    /\ \E line \in Lines :
           /\ Args(line) # <<>> /\ Args(line)[1] = Word.help
           /\ Take(line, Turn(collections, file, NoEngineCall("help", Ok(Unit)), "continue"))

RecCommand ==
    /\ pc[MainThread] = "continue"
    /\ \E line \in Lines :
           /\ Args(line) # <<>> /\ Args(line)[1] \in {Word.rec, Word.record}
           /\ Take(line, Run(collections, file, RecCommands[line], <<>>))

ColCommand ==
    /\ pc[MainThread] = "continue"
    /\ \E line \in Lines, keys \in KeyOrders(collections.value) :
           /\ Args(line) # <<>> /\ Args(line)[1] \in {Word.col, Word.collection}
           /\ Take(line, Run(collections, file, ColCommands[line], keys))

\* _ => eprintln!("Unknown command {}", args[0])
UnknownCommand ==
    /\ pc[MainThread] = "continue"
    /\ \E line \in Lines :
           /\ Args(line) # <<>>
           /\ Args(line)[1] \notin {Word.exit, Word.save, Word.help, Word.rec,
                                    Word.record, Word.col, Word.collection}
           /\ Take(line, Turn(collections, file, NoEngineCall("unknown", Ok(Unit)), "continue"))

NextCli ==
    \/ EmptyLine
    \/ ExitCommand
    \/ SaveCommand
    \/ HelpCommand
    \/ RecCommand
    \/ ColCommand
    \/ UnknownCommand

SpecCli == InitCli /\ [][NextCli]_vars

---------------------------------------------------------------------------
(* SpecFile: load_from_file and save_to_file, called on an engine that     *)
(* earlier calls have brought to any of its states, over a snapshot path   *)
(* in any of its states.                                                   *)

RecordSeqs == UNION { [1..k -> Records] : k \in 0..MaxLen }

\* The engines that add_collection and create_record build from
\* init_storage(), and those a panic of update_record or delete_record leaves.
Engines ==
    LET built == { NewLock([n \in DOMAIN m |-> NewCollection(n, m[n])]) :
                     m \in UNION { [S -> RecordSeqs] : S \in SUBSET Names } }
    IN  built \cup UNION { { PanicHoldingBoth(e, n) : n \in DOMAIN e.value } : e \in built }

InitFile ==
    /\ collections \in Engines
    /\ file \in InitialFiles
    /\ fsWritable \in BOOLEAN
    /\ last = Called("earlier calls", "", 0, NoRecord, Ok(Unit))
    /\ boot = EmptyMap
    /\ removed = None
    /\ input = <<>>
    /\ instants = {}
    /\ Idle

LoadFromFile ==
    /\ Alive
    /\ LET r == load_from_file(collections, file, fsWritable)
       IN  /\ collections' = r.reg
           /\ file' = r.file
           /\ last' = Called("load_from_file", "", 0, NoRecord, r.res)
           /\ removed' = IF r.res = Ok(Unit)
                         THEN [some |-> TRUE, map |-> collections.value]
                         ELSE None
           /\ UNCHANGED <<fsWritable, pc, call, ret, boot, input, instants>>

SaveToFile ==
    /\ Alive
    /\ LET r == save_to_file(collections, file, fsWritable)
       IN  /\ collections' = r.reg
           /\ file' = r.file
           /\ last' = Called("save_to_file", "", 0, NoRecord, r.res)
           /\ removed' = None
           /\ UNCHANGED <<fsWritable, pc, call, ret, boot, input, instants>>

NextFile ==
    \/ LoadFromFile
    \/ SaveToFile

SpecFile == InitFile /\ [][NextFile]_vars

---------------------------------------------------------------------------
(* SpecConc: threads that share the handle.  Each thread makes one call;   *)
(* the call is split where the code takes a lock.  A guard lives until the *)
(* function returns (every guard of storage.rs is a local of the whole     *)
(* function body), so a thread holds the lock of the map from its          *)
(* acquisition to its return.                                              *)

\* The lock mode in which each operation takes self.collections.
RegistryModeAddRead(op) ==
    IF op \in {"delete_collection", "update_record", "delete_record"}
    THEN "write"
    ELSE "read"

\* delete_collection that takes self.collections with .read() (and removes
\* through interior mutability).
RegistryModeDeleteRead(op) ==
    IF op \in {"add_collection", "update_record", "delete_record"}
    THEN "write"
    ELSE "read"

RegistryMode(op) ==
    IF op \in {"add_collection", "delete_collection", "update_record", "delete_record"}
    THEN "write"
    ELSE "read"

\* The lock mode in which each operation takes collection.data.
DataMode(op) ==
    IF op \in {"create_record", "update_record", "delete_record"}
    THEN "write"
    ELSE "read"

\* RwLock::read returns once no writer holds the lock; RwLock::write once
\* nobody holds it.
CanAcquire(lock, mode) ==
    IF mode = "read"
    THEN lock.writer = NoThread
    ELSE lock.writer = NoThread /\ lock.readers = {}

Acquire(lock, mode, t) ==
    IF mode = "read"
    THEN [lock EXCEPT !.readers = @ \cup {t}]
    ELSE [lock EXCEPT !.writer = t]

\* Dropping a guard.
Drop(lock, t) ==
    [lock EXCEPT !.readers = @ \ {t},
                 !.writer = IF @ = t THEN NoThread ELSE @]

\* A return that drops the guard of the map and leaks the guard of the data
\* (std::mem::forget).
DropRegistryOnly(reg, t) == Drop(reg, t)

\* The function returns: its guards of the map and of a collection's data
\* are dropped.
DropAll(reg, t) ==
    [Drop(reg, t) EXCEPT
        !.value = [n \in DOMAIN reg.value |->
                     [reg.value[n] EXCEPT !.data = Drop(@, t)]]]

\* The calls the threads make.
Calls ==
    { [op |-> o, name |-> n, index |-> 0, record |-> NoRecord] :
        o \in {"add_collection", "read_collection", "delete_collection"}, n \in Names }
    \cup { [op |-> "list_collections", name |-> "", index |-> 0, record |-> NoRecord] }
    \cup { [op |-> "create_record", name |-> n, index |-> 0, record |-> r] :
             n \in Names, r \in Records }
    \cup { [op |-> o, name |-> n, index |-> i, record |-> NoRecord] :
             o \in {"read_record", "delete_record"}, n \in Names, i \in Indexes }
    \cup { [op |-> "update_record", name |-> n, index |-> i, record |-> r] :
             n \in Names, i \in Indexes, r \in Records }

\* The registries the threads start from.
Boots ==
    { [n \in S |-> NewCollection(n, IF n = "users" THEN <<Record(<<IntegerV(1)>>)>> ELSE <<>>)] :
        S \in SUBSET Names }

InitConc ==
    /\ boot \in Boots
    /\ removed = None
    /\ input = <<>>
    /\ instants = {}
    /\ collections = NewLock(boot)
    /\ file = NoFile
    /\ fsWritable = TRUE
    /\ last = Called("earlier calls", "", 0, NoRecord, Ok(Unit))
    /\ Idle

Return(t, reg, res) ==
    /\ collections' = DropAll(reg, t)
    /\ ret' = [ret EXCEPT ![t] = res]
    /\ pc' = [pc EXCEPT ![t] = "done"]

\* A thread calls an operation of the engine.
Begin(t) ==
    /\ pc[t] = "idle"
    /\ \E c \in Calls : call' = [call EXCEPT ![t] = c]
    /\ pc' = [pc EXCEPT ![t] = "registry"]
    /\ UNCHANGED <<collections, file, fsWritable, last, ret, boot, removed, input, instants>>

\* self.collections.read() / .write(): the thread waits for the lock.  On a
\* poisoned lock the guard comes inside the error, map_err drops it, and the
\* function returns its StorageError.
AcquireRegistry(t) ==
    /\ pc[t] = "registry"
    /\ CanAcquire(collections, RegistryMode(call[t].op))
    /\ IF collections.poisoned
       THEN Return(t, collections,
                   IF call[t].op = "list_collections"
                   THEN list_collections(collections, <<>>).res
                   ELSE Apply(call[t], collections).res)
       ELSE /\ collections' = Acquire(collections, RegistryMode(call[t].op), t)
            /\ pc' = [pc EXCEPT ![t] = "lookup"]
            /\ UNCHANGED ret
    /\ UNCHANGED <<file, fsWritable, last, call, boot, removed, input, instants>>

\* Under the guard of the map: contains_key, remove, keys or get.
Lookup(t) ==
    /\ pc[t] = "lookup"
    /\ LET c == call[t]
       IN  CASE c.op = "add_collection" ->
                  IF c.name \in DOMAIN collections.value
                  THEN Return(t, collections, Apply(c, collections).res)
                  ELSE /\ pc' = [pc EXCEPT ![t] = "insert"]
                       /\ UNCHANGED <<collections, ret>>
             [] c.op = "delete_collection" ->
                  Return(t, Apply(c, collections).reg, Apply(c, collections).res)
             [] c.op = "list_collections" ->
                  \E keys \in KeyOrders(collections.value) :
                      Return(t, collections, list_collections(collections, keys).res)
             [] OTHER ->
                  IF c.name \in DOMAIN collections.value
                  THEN /\ pc' = [pc EXCEPT ![t] = "data"]
                       /\ UNCHANGED <<collections, ret>>
                  ELSE Return(t, collections, Apply(c, collections).res)
    /\ UNCHANGED <<file, fsWritable, last, call, boot, removed, input, instants>>

\* add_collection's collections.insert(name, Arc::new(...)), after its
\* contains_key found nothing.
Insert(t) ==
    /\ pc[t] = "insert"
    /\ Return(t, [collections EXCEPT
                    !.value = MapInsert(@, call[t].name, NewCollection(call[t].name, <<>>))],
              Ok(Unit))
    /\ UNCHANGED <<file, fsWritable, last, call, boot, removed, input, instants>>

\* collection.data.read() / .write(), with the guard of the map still held.
AcquireData(t) ==
    /\ pc[t] = "data"
    /\ LET c    == call[t]
           data == collections.value[c.name].data
       IN  /\ CanAcquire(data, DataMode(c.op))
           /\ IF data.poisoned
              THEN Return(t, collections, Apply(c, collections).res)
              ELSE /\ collections' =
                        [collections EXCEPT
                           !.value[c.name].data = Acquire(@, DataMode(c.op), t)]
                   /\ pc' = [pc EXCEPT ![t] = "body"]
                   /\ UNCHANGED ret
    /\ UNCHANGED <<file, fsWritable, last, call, boot, removed, input, instants>>

\* Under both guards: clone, push, get, the indexed store or remove; then the
\* function returns, or panics and unwinds.
Body(t) ==
    /\ pc[t] = "body"
    /\ Return(t, Apply(call[t], collections).reg, Apply(call[t], collections).res)
    /\ UNCHANGED <<file, fsWritable, last, call, boot, removed, input, instants>>

\* read_collection hands its caller an owned Vec<Record> (data.clone()); the
\* caller changes it: Vec::clear, or Vec::push of a record.
ChangeCopy(t) ==
    /\ pc[t] = "done"
    /\ call[t].op = "read_collection"
    /\ ret[t].outcome = "Ok"
    /\ \E copy \in {<<>>} \cup { VecPush(ret[t].value, r) : r \in Records } :
           /\ copy # ret[t].value
           /\ ret' = [ret EXCEPT ![t] = Ok(copy)]
    /\ pc' = [pc EXCEPT ![t] = "changed"]
    /\ UNCHANGED <<collections, file, fsWritable, last, call, boot, removed, input, instants>>

\* save_to_file and load_from_file, called with the one snapshot path.  The
\* local collections_helper of either function is kept in the call, and so
\* are the keys that save_to_file's collections_lock.iter() has yet to yield.
FileCalls ==
    { [op |-> o, name |-> "", index |-> 0, record |-> NoRecord,
       helpers |-> EmptyMap, keys |-> <<>>] :
        o \in {"save_to_file", "load_from_file"} }

\* File::create(path) on a path that can be written: the file is there and
\* holds no byte, which is no JSON text.
Truncated == TextFile(Unparsable)

\* Bytes of two documents: the head of one, then the tail of a longer one.
Torn == [t |-> "torn"]

\* write_all(bytes) through a handle opened by File::create: the bytes go to
\* offset 0 of what the file holds now.  On the empty file, and on a file that
\* holds the same document, the file becomes the document.  to_string(EmptyMap)
\* is "{}", the shortest document: written over a longer one it leaves that
\* one's tail, and any document written over it covers it.  Two different
\* documents that are not "{}": the longer covers the shorter, the shorter
\* leaves the tail of the longer.
WriteAll(f, document) ==
    IF f = Truncated \/ f = TextFile(document) \/ f = TextFile(to_string(EmptyMap))
    THEN {TextFile(document)}
    ELSE IF document = to_string(EmptyMap)
    THEN {TextFile(Torn)}
    ELSE {TextFile(document), TextFile(Torn)}

\* A thread calls save_to_file or load_from_file.
BeginFile(t) ==
    /\ pc[t] = "idle"
    /\ \E c \in FileCalls :
           /\ call' = [call EXCEPT ![t] = c]
           /\ pc' = [pc EXCEPT ![t] = IF c.op = "save_to_file" THEN "save_lock"
                                                               ELSE "read_file"]
    /\ UNCHANGED <<collections, file, fsWritable, last, ret, boot, removed, input, instants>>

\* save_to_file: self.collections.read(); the guard lives until the function
\* returns.  The map cannot change under the guard, so the order in which
\* iter() yields its keys is settled here.
SaveAcquire(t) ==
    /\ pc[t] = "save_lock"
    /\ CanAcquire(collections, "read")
    /\ IF collections.poisoned
       THEN /\ Return(t, collections, save_to_file(collections, file, fsWritable).res)
            /\ UNCHANGED call
       ELSE /\ collections' = Acquire(collections, "read", t)
            /\ \E keys \in KeyOrders(collections.value) :
                   call' = [call EXCEPT ![t].keys = keys]
            /\ pc' = [pc EXCEPT ![t] = "iterate"]
            /\ UNCHANGED ret
    /\ UNCHANGED <<file, fsWritable, last, boot, removed, input, instants>>

\* The closure of collections_lock.iter().map(..), for the next collection the
\* HashMap yields: collection.data.read(), and .expect("Reason") panics on a
\* poisoned lock.
SaveAcquireData(t) ==
    /\ pc[t] = "iterate"
    /\ call[t].keys # <<>>
    /\ LET n    == Head(call[t].keys)
           data == collections.value[n].data
       IN  /\ CanAcquire(data, "read")
           /\ IF data.poisoned
              THEN /\ Return(t, collections, Panicked)
                   /\ UNCHANGED call
              ELSE /\ collections' =
                        [collections EXCEPT !.value[n].data = Acquire(@, "read", t)]
                   /\ call' = [call EXCEPT ![t].name = n, ![t].keys = Tail(@)]
                   /\ pc' = [pc EXCEPT ![t] = "clone"]
                   /\ UNCHANGED ret
    /\ UNCHANGED <<file, fsWritable, last, boot, removed, input, instants>>

\* A helper built with Vec::new() in place of the clone of the records.
SaveCloneEmpty(t) ==
    /\ pc[t] = "clone"
    /\ LET n == call[t].name
       IN  /\ call' = [call EXCEPT
                         ![t].helpers = MapInsert(@, n, [name |-> collections.value[n].name,
                                                         data |-> <<>>]),
                         ![t].name = ""]
           /\ collections' = [collections EXCEPT !.value[n].data = Drop(@, t)]
    /\ pc' = [pc EXCEPT ![t] = "iterate"]
    /\ UNCHANGED <<file, fsWritable, last, ret, boot, removed, input, instants>>

\* A clone whose guard of the data is kept (a Vec of guards that lives until
\* the function returns) instead of being dropped with the statement.
SaveCloneKeeping(t) ==
    /\ pc[t] = "clone"
    /\ call' = [call EXCEPT
                  ![t].helpers = MapInsert(@, call[t].name,
                                           Helpers(collections.value)[call[t].name]),
                  ![t].name = ""]
    /\ pc' = [pc EXCEPT ![t] = "iterate"]
    /\ UNCHANGED <<collections, file, fsWritable, last, ret, boot, removed, input, instants>>

\* .clone() under the guard of the data, a temporary that is dropped at the
\* end of the let statement; then the entry (name.clone(), helper).
SaveClone(t) ==
    /\ pc[t] = "clone"
    /\ LET n == call[t].name
       IN  /\ call' = [call EXCEPT
                         ![t].helpers = MapInsert(@, n, Helpers(collections.value)[n]),
                         ![t].name = ""]
           /\ collections' = [collections EXCEPT !.value[n].data = Drop(@, t)]
    /\ pc' = [pc EXCEPT ![t] = "iterate"]
    /\ UNCHANGED <<file, fsWritable, last, ret, boot, removed, input, instants>>

\* iter() has yielded every key: collect(), serde_json::to_string, then
\* File::create(path), with the guard of the map still held.
SaveCreate(t) ==
    /\ pc[t] = "iterate"
    /\ call[t].keys = <<>>
    /\ IF fsWritable
       THEN /\ file' = Truncated
            /\ pc' = [pc EXCEPT ![t] = "write_all"]
            /\ UNCHANGED <<collections, ret>>
       ELSE /\ Return(t, collections, StorageError("File::create"))
            /\ UNCHANGED file
    /\ UNCHANGED <<fsWritable, last, call, boot, removed, input, instants>>

\* file.write_all(json_content.as_bytes()); Ok(())
SaveWrite(t) ==
    /\ pc[t] = "write_all"
    /\ file' \in WriteAll(file, to_string(call[t].helpers))
    /\ Return(t, collections, Ok(Unit))
    /\ UNCHANGED <<fsWritable, last, call, boot, removed, input, instants>>

\* load_from_file: fs::read_to_string(path) and serde_json::from_str, with no
\* lock held.  A file that cannot be read as text sends the call to
\* create_empty_file.
LoadRead(t) ==
    /\ pc[t] = "read_file"
    /\ IF file.kind # "text"
       THEN /\ pc' = [pc EXCEPT ![t] = "create_empty"]
            /\ UNCHANGED <<collections, call, ret>>
       ELSE IF ~from_str(file.json).some
       THEN /\ Return(t, collections, Err("serde_json::Error", "from_str"))
            /\ UNCHANGED call
       ELSE /\ call' = [call EXCEPT ![t].helpers = from_str(file.json).v]
            /\ pc' = [pc EXCEPT ![t] = "load_lock"]
            /\ UNCHANGED <<collections, ret>>
    /\ UNCHANGED <<file, fsWritable, last, boot, removed, input, instants>>

\* create_empty_file: File::create(path)
LoadCreate(t) ==
    /\ pc[t] = "create_empty"
    /\ IF fsWritable
       THEN /\ file' = Truncated
            /\ pc' = [pc EXCEPT ![t] = "write_empty"]
            /\ UNCHANGED <<collections, ret>>
       ELSE /\ Return(t, collections, StorageError("File::create"))
            /\ UNCHANGED file
    /\ UNCHANGED <<fsWritable, last, call, boot, removed, input, instants>>

\* create_empty_file: file.write_all("{}".as_bytes()); the map to assign is
\* HashMap::new().
LoadWriteEmpty(t) ==
    /\ pc[t] = "write_empty"
    /\ file' \in WriteAll(file, to_string(EmptyMap))
    /\ call' = [call EXCEPT ![t].helpers = EmptyMap]
    /\ pc' = [pc EXCEPT ![t] = "empty_lock"]
    /\ UNCHANGED <<collections, fsWritable, last, ret, boot, removed, input, instants>>

\* self.collections.write(), of load_from_file ("load_lock") or of
\* create_empty_file ("empty_lock").
LoadAcquire(t) ==
    /\ pc[t] \in {"load_lock", "empty_lock"}
    /\ CanAcquire(collections, "write")
    /\ IF collections.poisoned
       THEN Return(t, collections,
                   StorageError(IF pc[t] = "load_lock"
                                THEN "Uhoh" ELSE "Failed to acquire write lock"))
       ELSE /\ collections' = Acquire(collections, "write", t)
            /\ pc' = [pc EXCEPT ![t] = "assign"]
            /\ UNCHANGED ret
    /\ UNCHANGED <<file, fsWritable, last, call, boot, removed, input, instants>>

\* *collections_lock = the new map; Ok(())
LoadAssign(t) ==
    /\ pc[t] = "assign"
    /\ Return(t, [collections EXCEPT !.value = FromHelpers(call[t].helpers)], Ok(Unit))
    /\ UNCHANGED <<file, fsWritable, last, call, boot, removed, input, instants>>

NextConc ==
    \E t \in Threads :
        \/ Begin(t)
        \/ AcquireRegistry(t)
        \/ Lookup(t)
        \/ Insert(t)
        \/ AcquireData(t)
        \/ Body(t)
        \/ ChangeCopy(t)
        \/ BeginFile(t)
        \/ SaveAcquire(t)
        \/ SaveAcquireData(t)
        \/ SaveClone(t)
        \/ SaveCreate(t)
        \/ SaveWrite(t)
        \/ LoadRead(t)
        \/ LoadCreate(t)
        \/ LoadWriteEmpty(t)
        \/ LoadAcquire(t)
        \/ LoadAssign(t)

SpecConc == InitConc /\ [][NextConc]_vars

\* A step of a thread inside its call.
Proceed(t) ==
    \/ AcquireRegistry(t)
    \/ Lookup(t)
    \/ Insert(t)
    \/ AcquireData(t)
    \/ Body(t)
    \/ SaveAcquire(t)
    \/ SaveAcquireData(t)
    \/ SaveClone(t)
    \/ SaveCreate(t)
    \/ SaveWrite(t)
    \/ LoadRead(t)
    \/ LoadCreate(t)
    \/ LoadWriteEmpty(t)
    \/ LoadAcquire(t)
    \/ LoadAssign(t)

\* SpecConc under a scheduler that lets every thread that can take a step
\* take one: a thread runs unless it waits for a lock.
FairConc == SpecConc /\ \A t \in Threads : WF_vars(Proceed(t))

---------------------------------------------------------------------------
(* SpecSnap: one thread calls save_to_file once while the other makes call *)
(* after call on the records and the collections.                          *)

\* The thread that calls save_to_file.
Saver == 1

\* The calls the other thread makes, one after the other, at most.
MaxCalls == 2

\* The calls the other thread makes.
SnapCalls ==
    { [op |-> o, name |-> n, index |-> 0, record |-> NoRecord] :
        o \in {"add_collection", "delete_collection", "delete_record"}, n \in Names }
    \cup { [op |-> "create_record", name |-> n, index |-> 0,
            record |-> Record(<<IntegerV(1)>>)] : n \in Names }
    \cup { [op |-> "update_record", name |-> n, index |-> 0,
            record |-> Record(<<TextV("bob"), BoolV(TRUE)>>)] : n \in Names }

\* A thread calls: the saver save_to_file, from when on the contents of the
\* registry are kept; the other thread one of SnapCalls, its nth.  The model
\* stops growing a collection at MaxLen records.
BeginSnap(t) ==
    /\ pc[t] = "idle"
    /\ IF t = Saver
       THEN /\ \E c \in FileCalls :
                   /\ c.op = "save_to_file"
                   /\ call' = [call EXCEPT ![t] = c]
            /\ pc' = [pc EXCEPT ![t] = "save_lock"]
            /\ instants' = {Helpers(collections.value)}
       ELSE /\ \E c \in SnapCalls :
                   LET made == IF call[t] = NoCall THEN 0 ELSE call[t].nth
                   IN  /\ made < MaxCalls
                       /\ (c.op = "create_record" /\ c.name \in DOMAIN collections.value)
                             => Len(collections.value[c.name].data.value) < MaxLen
                       /\ call' = [call EXCEPT ![t] =
                                     [op |-> c.op, name |-> c.name, index |-> c.index,
                                      record |-> c.record, nth |-> made + 1]]
            /\ pc' = [pc EXCEPT ![t] = "registry"]
            /\ UNCHANGED instants
    /\ UNCHANGED <<collections, file, fsWritable, last, ret, boot, removed, input>>

\* The other thread's call has returned and the thread goes on to its next
\* call; a thread that panicked is gone.  While save_to_file runs, the
\* contents the call has left are kept.
Again(t) ==
    /\ t # Saver
    /\ pc[t] = "done"
    /\ ret[t].outcome # "Panic"
    /\ pc' = [pc EXCEPT ![t] = "idle"]
    /\ instants' = IF pc[Saver] \in {"idle", "done"}
                   THEN instants
                   ELSE instants \cup {Helpers(collections.value)}
    /\ UNCHANGED <<collections, file, fsWritable, last, call, ret, boot, removed, input>>

NextSnap ==
    \E t \in Threads :
        \/ BeginSnap(t)
        \/ Again(t)
        \/ AcquireRegistry(t)
        \/ Lookup(t)
        \/ Insert(t)
        \/ AcquireData(t)
        \/ Body(t)
        \/ SaveAcquire(t)
        \/ SaveAcquireData(t)
        \/ SaveClone(t)
        \/ SaveCreate(t)
        \/ SaveWrite(t)

SpecSnap == InitConc /\ [][NextSnap]_vars

---------------------------------------------------------------------------
(* The claims.  In a step of Spec or SpecFile, last' is the call the step  *)
(* makes and its result; collections and file are the state it was made    *)
(* on, collections' and file' the state it leaves.                         *)

\* The records of collection n of engine reg.
RecordsOf(reg, n) == reg.value[n].data.value

\* Every collection other than n is in reg2 what it was in reg1.
OthersUnchanged(reg1, reg2, n) ==
    /\ (DOMAIN reg1.value) \ {n} = (DOMAIN reg2.value) \ {n}
    /\ \A m \in (DOMAIN reg1.value) \ {n} : reg2.value[m] = reg1.value[m]

\* How often name n occurs in the Vec<String> that list_collections returns.
Occurrences(names, n) == Cardinality({ k \in DOMAIN names : names[k] = n })

\* C1: add_collection(n) of a name that is not in the registry succeeds, and
\* list_collections() then holds n exactly once, in whatever order the map
\* yields its keys; add_collection(n) of a name that is in the registry (a
\* second add_collection(n)) fails with the "Collection already exists" error
\* and leaves the registry, names and records, as it was.
C1_AddCollection ==
    [][ last'.op = "add_collection" =>
          IF last'.name \notin DOMAIN collections.value
          THEN /\ last'.res = Ok(Unit)
               /\ OthersUnchanged(collections, collections', last'.name)
               /\ \A keys \in KeyOrders(collections'.value) :
                     LET listed == list_collections(collections', keys).res
                     IN  /\ listed.outcome = "Ok"
                         /\ Occurrences(listed.value, last'.name) = 1
          ELSE /\ last'.res.outcome = "Err"
               /\ last'.res.msg = "Collection already exists"
               /\ collections' = collections ]_vars

\* C1's case: a second add_collection of a name has just failed.
C1_Witness ==
    /\ last.op = "add_collection"
    /\ last.res = StorageError("Collection already exists")
    /\ last.name \in DOMAIN collections.value

\* C2: update_record(name, index, record) on a collection that exists, with
\* an index that is negative or not below the length, returns an error value
\* (it does not panic) and leaves the collection's records as they were.
C2_UpdateOutOfBounds ==
    [][ ( /\ last'.op = "update_record"
          /\ last'.name \in DOMAIN collections.value
          /\ ~(0 <= last'.index /\ last'.index < Len(RecordsOf(collections, last'.name))) )
        => /\ last'.res.outcome = "Err"
           /\ RecordsOf(collections', last'.name) = RecordsOf(collections, last'.name) ]_vars

\* C3: delete_record(name, index) on a collection that exists, with an index
\* that is negative or not below the length, returns an error value (it does
\* not panic) and leaves the collection's records as they were.
C3_DeleteOutOfBounds ==
    [][ ( /\ last'.op = "delete_record"
          /\ last'.name \in DOMAIN collections.value
          /\ ~(0 <= last'.index /\ last'.index < Len(RecordsOf(collections, last'.name))) )
        => /\ last'.res.outcome = "Err"
           /\ RecordsOf(collections', last'.name) = RecordsOf(collections, last'.name) ]_vars

\* C9: delete_record(n, i) with 0 <= i < length returns the record that was
\* at index i; afterwards the collection is one shorter, every record that
\* was at an index j > i is at j - 1, every record at an index j < i is where
\* it was, and no other collection changes.  (Index i is position i + 1 of
\* the sequence.)
C9_DeleteShifts ==
    [][ ( /\ last'.op = "delete_record"
          /\ last'.name \in DOMAIN collections.value
          /\ 0 <= last'.index
          /\ last'.index < Len(RecordsOf(collections, last'.name)) )
        => LET n      == last'.name
               i      == last'.index
               before == RecordsOf(collections, n)
               after  == RecordsOf(collections', n)
           IN  /\ last'.res = Ok(before[i + 1])
               /\ n \in DOMAIN collections'.value
               /\ Len(after) = Len(before) - 1
               /\ \A j \in 0..(Len(before) - 1) :
                     /\ j > i => after[j] = before[j + 1]
                     /\ j < i => after[j + 1] = before[j + 1]
               /\ OthersUnchanged(collections, collections', n) ]_vars

\* C9's case: index 0 of a collection of two records was deleted, so a
\* record has moved from index 1 to index 0.
C9_Witness ==
    /\ last.op = "delete_record"
    /\ last.index = 0
    /\ last.res.outcome = "Ok"
    /\ Len(RecordsOf(collections, last.name)) >= 1

\* C10: create_record(n, r) on a collection that exists succeeds; the
\* collection is then its earlier records followed by r, no other collection
\* changes, and read_record(n, last index) on the engine it leaves returns r.
C10_CreateAppends ==
    [][ ( /\ last'.op = "create_record"
          /\ last'.name \in DOMAIN collections.value )
        => LET n     == last'.name
               after == RecordsOf(collections', n)
           IN  /\ last'.res = Ok(Unit)
               /\ n \in DOMAIN collections'.value
               /\ after = Append(RecordsOf(collections, n), last'.record)
               /\ OthersUnchanged(collections, collections', n)
               /\ read_record(collections', n, Len(after) - 1).res = Ok(last'.record) ]_vars

\* C10's case: a record was appended to a collection that held one already.
C10_Witness ==
    /\ last.op = "create_record"
    /\ last.res = Ok(Unit)
    /\ Len(RecordsOf(collections, last.name)) >= 2
    /\ RecordsOf(collections, last.name)[1] # last.record

\* C5: after a save of a registry that is not empty has succeeded, a load of
\* the file into a fresh engine (init_storage()) succeeds and gives a
\* registry of the same names whose collections hold the same records in the
\* same order.
C5_RoundTrip ==
    ( /\ last.op = "save_to_file"
      /\ last.res = Ok(Unit)
      /\ DOMAIN collections.value # {} )
    => LET loaded == load_from_file(init_storage, file, fsWritable)
       IN  /\ loaded.res = Ok(Unit)
           /\ DOMAIN loaded.reg.value = DOMAIN collections.value
           /\ \A n \in DOMAIN collections.value :
                 RecordsOf(loaded.reg, n) = RecordsOf(collections, n)

C7_LoadCorrupt ==
    [][ ( /\ last'.op = "load_from_file"
          /\ file # NoFile
          /\ (file.kind = "text" => ~from_str(file.json).some) )
        => /\ last'.res.outcome = "Err"
           /\ collections' = collections
           /\ file' = file ]_vars

\* A thread is in a record-level mutation: it holds the write guard of its
\* collection's data and is about to push, store or remove.
Mutating(t) ==
    /\ pc[t] = "body"
    /\ call[t].op \in {"create_record", "update_record", "delete_record"}

\* A thread stands before a lock, and the lock can be taken.
CanProceed(u) ==
    CASE pc[u] = "registry" -> CanAcquire(collections, RegistryMode(call[u].op))
      [] pc[u] = "data"     -> CanAcquire(collections.value[call[u].name].data,
                                          DataMode(call[u].op))
      [] OTHER              -> TRUE

\* C4: while a thread is in a record-level mutation of collection A, a thread
\* whose call is a record-level operation on another collection B, or
\* add_collection or delete_collection of another name, and that stands before
\* a lock, can take the lock: it does not wait for the mutation to finish.
C4_NoCrossBlocking ==
    \A t, u \in Threads :
        ( /\ t # u
          /\ Mutating(t)
          /\ call[u].op \in {"create_record", "read_record", "update_record",
                             "delete_record", "add_collection", "delete_collection"}
          /\ call[u].name # call[t].name
          /\ pc[u] \in {"registry", "data"} )
        => CanProceed(u)

\* Nobody but t and u has called the engine.
OnlyCallers(t, u) == \A w \in Threads \ {t, u} : pc[w] = "idle"

\* The calls of t and then of u, one after the other on the registry the
\* threads started from, give the registry and the two results that are there.
AsIfInOrder(t, u) ==
    LET first  == Apply(call[t], NewLock(boot))
        second == Apply(call[u], first.reg)
    IN  /\ collections = second.reg
        /\ ret[t] = first.res
        /\ ret[u] = second.res

\* C8: (1) from add_collection's contains_key to its insert no other thread
\* changes the map under it: when a thread is at its insert the name is still
\* absent; (2) when two threads have both called add_collection(n) for a name
\* n that was absent, exactly one has succeeded, the other has failed with
\* "Collection already exists", and the registry holds one, empty, collection
\* for n; (3) when one thread has called add_collection(n) and another
\* delete_collection(n), the registry and the two results are those of the
\* two calls made one after the other, in one of the two orders.
C8_AddCollectionAtomic ==
    /\ \A t \in Threads :
          pc[t] = "insert" => call[t].name \notin DOMAIN collections.value
    /\ \A t, u \in Threads :
          ( /\ t # u /\ pc[t] = "done" /\ pc[u] = "done" /\ OnlyCallers(t, u)
            /\ call[t].op = "add_collection" /\ call[u].op = "add_collection"
            /\ call[t].name = call[u].name
            /\ call[t].name \notin DOMAIN boot )
          => /\ {ret[t], ret[u]} = {Ok(Unit), StorageError("Collection already exists")}
             /\ call[t].name \in DOMAIN collections.value
             /\ collections.value[call[t].name] = NewCollection(call[t].name, <<>>)
    /\ \A t, u \in Threads :
          ( /\ t # u /\ pc[t] = "done" /\ pc[u] = "done" /\ OnlyCallers(t, u)
            /\ call[t].op = "add_collection" /\ call[u].op = "delete_collection"
            /\ call[t].name = call[u].name )
          => AsIfInOrder(t, u) \/ AsIfInOrder(u, t)

\* C8's case: two threads have called add_collection of the same absent name
\* and both have returned.
C8_Witness ==
    \E t, u \in Threads :
        /\ t # u /\ pc[t] = "done" /\ pc[u] = "done"
        /\ call[t].op = "add_collection" /\ call[u].op = "add_collection"
        /\ call[t].name = call[u].name
        /\ call[t].name \notin DOMAIN boot
        /\ ret[t] = Ok(Unit)
        /\ ret[u] = StorageError("Collection already exists")

\* C11: update_record(n, i, r) with 0 <= i < length returns r; afterwards the
\* record at index i is r, the collection has the length it had, every record
\* at another index is the one that was there, the names of the registry are
\* the same and no other collection changes.
C11_UpdateFrame ==
    [][ ( /\ last'.op = "update_record"
          /\ last'.name \in DOMAIN collections.value
          /\ 0 <= last'.index
          /\ last'.index < Len(RecordsOf(collections, last'.name)) )
        => LET n      == last'.name
               i      == last'.index
               before == RecordsOf(collections, n)
               after  == RecordsOf(collections', n)
           IN  /\ last'.res = Ok(last'.record)
               /\ DOMAIN collections'.value = DOMAIN collections.value
               /\ Len(after) = Len(before)
               /\ after[i + 1] = last'.record
               /\ \A j \in 0..(Len(before) - 1) :
                     j # i => after[j + 1] = before[j + 1]
               /\ OthersUnchanged(collections, collections', n)
               /\ collections'.value[n].name = collections.value[n].name ]_vars

\* C11's case: index 1 of a collection of two records was overwritten with a
\* record that differs from the one at index 0, while another collection
\* holds records.
C11_Witness ==
    /\ last.op = "update_record"
    /\ last.index = 1
    /\ last.res = Ok(last.record)
    /\ Len(RecordsOf(collections, last.name)) = 2
    /\ RecordsOf(collections, last.name)[1] # last.record
    /\ \E m \in DOMAIN collections.value \ {last.name} : RecordsOf(collections, m) # <<>>

\* C12: when delete_collection(n) has succeeded and the next call is
\* add_collection(n), the add succeeds and read_collection(n) then returns
\* the empty sequence, whatever records the deleted collection held.
C12_RecreateIsEmpty ==
    (removed.some /\ removed.recreated)
    => /\ last.op = "add_collection"
       /\ last.name = removed.collection.name
       /\ last.res = Ok(Unit)
       /\ read_collection(collections, last.name).res = Ok(<<>>)

\* C12's case: a collection that held records was deleted and a collection
\* of the same name was added by the next call.
C12_Witness ==
    /\ removed.some /\ removed.recreated
    /\ last.op = "add_collection"
    /\ Len(removed.collection.data.value) = MaxLen

\* The engine after add_collection("users") and
\* create_record("users", [Integer(1)]) on an empty engine.
UsersWithOne ==
    create_record(add_collection(init_storage, "users").reg,
                  "users", Record(<<IntegerV(1)>>)).reg

\* C13: delete_collection(name) of a name that is in the registry succeeds,
\* takes that name out and leaves every other collection, name and records,
\* as it was; of a name that is not in the registry it returns the "Failed to
\* delete collection" error and leaves the registry as it was.  On the engine
\* of add_collection("users"), create_record("users", [Integer(1)]), after
\* delete_collection("users") list_collections() returns the empty Vec.
C13_DeleteCollection ==
    [][ last'.op = "delete_collection" =>
          /\ IF last'.name \in DOMAIN collections.value
             THEN /\ last'.res = Ok(Unit)
                  /\ DOMAIN collections'.value = DOMAIN collections.value \ {last'.name}
                  /\ OthersUnchanged(collections, collections', last'.name)
             ELSE /\ last'.res.outcome = "Err"
                  /\ last'.res.kind = "StorageError"
                  /\ collections' = collections
          /\ (collections = UsersWithOne /\ last'.name = "users")
                => \A keys \in KeyOrders(collections'.value) :
                      list_collections(collections', keys).res = Ok(<<>>) ]_vars

\* C13's case: a collection was deleted from an engine that held it along
\* with another collection that has records.
C13_Witness ==
    /\ last.op = "delete_collection"
    /\ last.res = Ok(Unit)
    /\ \E m \in DOMAIN collections.value : RecordsOf(collections, m) # <<>>

\* i32 indexes far from the lengths of the model: i32::MIN, i32::MAX and the
\* values around the limbs of the cast.
FarIndexes == {-2147483647 - 1, -65537, -65536, -65535, -2, 65536, 2147483647}

\* C14: read_record(name, index) on a collection that exists returns the
\* record at index when 0 <= index < length, and returns the "Unable to
\* access record" error for every index >= length and every negative index
\* (those a caller of Spec passes, and the far ones on the same engine); the
\* engine is unchanged in every case.
C14_ReadRecord ==
    [][ ( /\ last'.op = "read_record"
          /\ last'.name \in DOMAIN collections.value )
        => LET n    == last'.name
               i    == last'.index
               data == RecordsOf(collections, n)
           IN  /\ collections' = collections
               /\ IF 0 <= i /\ i < Len(data)
                  THEN last'.res = Ok(data[i + 1])
                  ELSE last'.res = StorageError("Unable to access record")
               /\ \A far \in FarIndexes :
                     /\ read_record(collections, n, far).res
                           = StorageError("Unable to access record")
                     /\ read_record(collections, n, far).reg = collections ]_vars

\* C14's case: read_record with index -1 on a collection that holds records
\* has returned the error.
C14_Witness ==
    /\ last.op = "read_record"
    /\ last.index = -1
    /\ last.name \in DOMAIN collections.value
    /\ Len(RecordsOf(collections, last.name)) = MaxLen
    /\ last.res = StorageError("Unable to access record")

\* C15: read_collection, create_record, read_record, update_record and
\* delete_record called with a name that is not in the registry each return
\* a StorageError value (no panic), and the registry is afterwards what it
\* was: the name is still absent.
C15_MissingCollection ==
    [][ ( /\ last'.op \in {"read_collection", "create_record", "read_record",
                           "update_record", "delete_record"}
          /\ last'.name \notin DOMAIN collections.value )
        => /\ last'.res.outcome = "Err"
           /\ last'.res.kind = "StorageError"
           /\ last'.name \notin DOMAIN collections'.value
           /\ collections' = collections ]_vars

\* C15's case: create_record was called with a name that is not in the
\* registry, while another collection is, and has returned an error.
C15_Witness ==
    /\ last.op = "create_record"
    /\ last.name \notin DOMAIN collections.value
    /\ DOMAIN collections.value # {}
    /\ last.res.outcome = "Err"

\* C16: when load_from_file has succeeded on a path that held a text file,
\* the registry holds exactly the names of the file's document, each
\* collection holds exactly the records the document gives it, in its order
\* and behind a fresh lock, and the file is as it was; a collection that was
\* in memory and is not in the document is gone.
C16_LoadReplaces ==
    [][ ( /\ last'.op = "load_from_file"
          /\ last'.res = Ok(Unit)
          /\ file.kind = "text" )
        => /\ file' = file
           /\ DOMAIN collections'.value = DOMAIN file.json.members
           /\ \A n \in DOMAIN collections'.value :
                 LET doc == file.json.members[n].members["data"].items
                     got == collections'.value[n].data
                 IN  /\ got = NewLock(got.value)
                     /\ Len(got.value) = Len(doc)
                     /\ \A k \in 1..Len(doc) : SerializeRecord(got.value[k]) = doc[k] ]_vars

\* C16's case: a load has succeeded on a document that holds a collection,
\* in an engine that held a collection of another name, with records, which
\* is gone.
C16_Witness ==
    /\ last.op = "load_from_file"
    /\ last.res = Ok(Unit)
    /\ removed.some
    /\ DOMAIN collections.value # {}
    /\ \E n \in DOMAIN removed.map \ DOMAIN collections.value :
          removed.map[n].data.value # <<>>

\* The calls that change the registry or a collection's records.
Mutations ==
    {"add_collection", "delete_collection", "create_record", "update_record",
     "delete_record"}

\* C17: (1) read_collection(n) of a collection that is there returns its
\* records, equal in content and order: with no other call made, the copy is
\* the records the registry started with and holds; with another thread's
\* mutation made, the copy and the registry are those of the two calls in one
\* of their two orders, so a copy returned before the mutation is what it was.
\* (2) A step that changes the registry changes no copy a thread holds, and a
\* step in which a thread changes its copy changes neither the registry nor
\* another thread's copy.
C17_ReadCollectionIsolated ==
    /\ [](\A t, u \in Threads :
            ( /\ t # u /\ OnlyCallers(t, u)
              /\ pc[t] = "done"
              /\ call[t].op = "read_collection"
              /\ call[t].name \in DOMAIN boot )
            => /\ pc[u] = "idle"
                  => /\ ret[t] = Ok(boot[call[t].name].data.value)
                     /\ collections = NewLock(boot)
               /\ (pc[u] = "done" /\ call[u].op \in Mutations)
                  => AsIfInOrder(t, u) \/ AsIfInOrder(u, t))
    /\ [][ \A t \in Threads :
             ( /\ pc[t] \in {"done", "changed"}
               /\ call[t].op = "read_collection" )
             => /\ collections' # collections => ret'[t] = ret[t]
                /\ ret'[t] # ret[t]
                   => /\ collections' = collections
                      /\ \A u \in Threads \ {t} : ret'[u] = ret[u] ]_vars

\* C17's case: a thread holds the copy read_collection returned, another
\* thread has changed the collection since, and the copy is still the
\* records the collection held when it was read.
C17_Witness ==
    \E t, u \in Threads :
        /\ t # u /\ pc[t] = "done" /\ pc[u] = "done"
        /\ call[t].op = "read_collection"
        /\ call[u].op \in {"create_record", "update_record", "delete_record"}
        /\ call[u].name = call[t].name
        /\ call[t].name \in DOMAIN boot
        /\ ret[u].outcome = "Ok"
        /\ ret[t] = Ok(boot[call[t].name].data.value)
        /\ ret[t].value # <<>>
        /\ RecordsOf(collections, call[t].name) # ret[t].value

\* A text without its sign.
Unsigned(s) == IF s # <<>> /\ Head(s) \in {"+", "-"} THEN Tail(s) ELSE s

\* An integer literal: an optional sign and digits, one at least.
IsIntegerLiteral(s) ==
    /\ Unsigned(s) # <<>>
    /\ \A k \in 1..Len(Unsigned(s)) : IsDigit(Unsigned(s)[k])

\* A numeric literal: an optional sign and a decimal number, with or without
\* a point and an exponent.
IsNumericLiteral(s) == parse_number(Unsigned(s)).some

\* C18: parse_value(text) returns Ok, never a Date; "true" and "false" give
\* Bool; an integer literal within the i32 range gives Integer ("1" gives
\* Integer(1), "42" Integer(42)); any other numeric literal, an integer
\* literal outside the i32 range included, gives Float ("3.14" gives
\* Float(3.14)); every other text gives Text of that text.
C18_ParseValue ==
    last.op = "parse_value" =>
        /\ last.res.outcome = "Ok"
        /\ last.res.value.tag # "Date"
        /\ CASE input \in {<<"t", "r", "u", "e">>, <<"f", "a", "l", "s", "e">>} ->
                  last.res.value = BoolV(input = <<"t", "r", "u", "e">>)
             [] IsIntegerLiteral(input) /\ parse_i32(input).some ->
                  last.res.value = IntegerV(parse_i32(input).v)
             [] IsNumericLiteral(input) /\ ~parse_i32(input).some ->
                  last.res.value.tag = "Float"
             [] OTHER ->
                  last.res.value = TextV(ToOwned(input))
        /\ input = <<"1">> => last.res.value = IntegerV(1)
        /\ input = <<"4", "2">> => last.res.value = IntegerV(42)
        /\ input = <<"3", ".", "1", "4">> => last.res.value = FloatV(Finite(3140))
        /\ input = <<"h", "e", "l", "l", "o">> => last.res.value = TextV("hello")

\* The line of a step of SpecCli is the command `<first> <second> ...` with
\* n words.
IsCommand(line, first, second, n) ==
    /\ Len(Args(line)) = n
    /\ Args(line)[1] \in first
    /\ Args(line)[2] = second

\* C19: the command `col delete <collection name>` (or `collection delete
\* <collection name>`) takes the collection of that name out of the registry
\* when it is there, and changes no other collection.
C19_ColDelete ==
    [][ IsCommand(input', {Word.col, Word.collection}, Word.delete, 3)
        => LET n == ToOwned(Args(input')[3])
           IN  /\ n \in DOMAIN collections.value
                  => DOMAIN collections'.value = DOMAIN collections.value \ {n}
               /\ OthersUnchanged(collections, collections', n) ]_vars

\* C20: the command `rec create <collection name> <record>` on a collection
\* that is there appends to it one record whose one value is parse_value of
\* the <record> text, and changes no other collection.
C20_RecCreate ==
    [][ ( /\ IsCommand(input', {Word.rec, Word.record}, Word.create, 4)
          /\ ToOwned(Args(input')[3]) \in DOMAIN collections.value )
        => LET n == ToOwned(Args(input')[3])
               r == Record(<<parse_value(Args(input')[4]).value>>)
           IN  /\ n \in DOMAIN collections'.value
               /\ RecordsOf(collections', n) = Append(RecordsOf(collections, n), r)
               /\ OthersUnchanged(collections, collections', n) ]_vars

\* The guards a thread holds: of the map, and of the data of collections.
HoldsRegistry(t) == collections.writer = t \/ t \in collections.readers

DataHeld(t) ==
    { n \in DOMAIN collections.value :
        \/ collections.value[n].data.writer = t
        \/ t \in collections.value[n].data.readers }

RecordOps == {"create_record", "read_record", "update_record", "delete_record"}

\* C21: a thread inside a record-level operation never holds the write guard
\* of the registry, and never holds the guard of the registry together with
\* the guard of a collection's data.
C21_RegistryReleasedFirst ==
    \A t \in Threads :
        call[t].op \in RecordOps
        => /\ collections.writer # t
           /\ ~(HoldsRegistry(t) /\ DataHeld(t) # {})

\* C22: a thread inside save_to_file holds the guard of at most one
\* collection's data, a read guard; it holds none when it goes to the next
\* collection and none when it creates and writes the file.
C22_SaveOneCollectionAtATime ==
    \A t \in Threads :
        call[t].op = "save_to_file"
        => /\ Cardinality(DataHeld(t)) <= 1
           /\ \A n \in DOMAIN collections.value : collections.value[n].data.writer # t
           /\ pc[t] # "clone" => DataHeld(t) = {}
           /\ pc[t] = "clone" => DataHeld(t) = {call[t].name}

\* C22's case: save_to_file has cloned one collection and holds the guard of
\* the next one, in a registry of two collections.
C22_Witness ==
    \E t \in Threads :
        /\ call[t].op = "save_to_file"
        /\ pc[t] = "clone"
        /\ DOMAIN call[t].helpers # {}
        /\ call[t].name \notin DOMAIN call[t].helpers
        /\ DataHeld(t) = {call[t].name}

\* A thread has opened the snapshot file with File::create and has not yet
\* written it.
InFileStep(t) == pc[t] \in {"write_all", "write_empty"}

\* C23, for two save_to_file calls and for a save_to_file and a
\* load_from_file: (1) the two threads are never in their file step at once;
\* (2) the load does not read the file while the save is in its file step;
\* (3) whenever no thread is in its file step the file, once there, holds one
\* complete document.
C23_FileAccessSerialized ==
    /\ [](\A t, u \in Threads :
            (t # u /\ call[t].op = "save_to_file")
            => ~(InFileStep(t) /\ InFileStep(u)))
    /\ [][ \A t \in Threads :
             (pc[t] = "read_file" /\ pc'[t] # "read_file")
             => \A u \in Threads \ {t} :
                    call[u].op = "save_to_file" => ~InFileStep(u) ]_vars
    /\ []( (\A t \in Threads : ~InFileStep(t))
           => file = NoFile \/ from_str(file.json).some )

\* A thread is inside a call.
Busy(t) == pc[t] \notin {"idle", "done", "changed"}

\* A thread stands before a lock that it cannot take now.
Waits(t) ==
    CASE pc[t] = "registry"  -> ~CanAcquire(collections, RegistryMode(call[t].op))
      [] pc[t] = "data"      -> ~CanAcquire(collections.value[call[t].name].data,
                                            DataMode(call[t].op))
      [] pc[t] = "save_lock" -> ~CanAcquire(collections, "read")
      [] pc[t] = "iterate"   -> /\ call[t].keys # <<>>
                                /\ ~CanAcquire(collections.value[Head(call[t].keys)].data,
                                               "read")
      [] pc[t] \in {"load_lock", "empty_lock"} -> ~CanAcquire(collections, "write")
      [] OTHER               -> FALSE

\* C24: (1) a thread that holds the guard of a collection's data holds the
\* guard of the registry, which it took first; (2) a thread that waits for a
\* lock holds no guard of a collection's data; (3) no deadlock: while a thread
\* is inside a call, some thread inside a call can take a step; (4) under fair
\* scheduling every call returns (or unwinds).
C24_NoDeadlock ==
    /\ [](\A t \in Threads : DataHeld(t) # {} => HoldsRegistry(t))
    /\ [](\A t \in Threads : Waits(t) => DataHeld(t) = {})
    /\ []((\E t \in Threads : Busy(t))
          => \E u \in Threads : Busy(u) /\ ~Waits(u) /\ ENABLED Proceed(u))
    /\ \A t \in Threads : Busy(t) ~> ~Busy(t)

\* C24's case: a thread waits for a lock that another thread holds.
C24_Witness ==
    \E t, u \in Threads :
        /\ t # u
        /\ Waits(t)
        /\ pc[t] = "iterate"
        /\ call[u].op = "create_record"
        /\ pc[u] = "body"

\* The operations that take a collection name, or a name and an index.
NamedOps ==
    {"add_collection", "read_collection", "delete_collection", "create_record",
     "read_record", "update_record", "delete_record"}

\* C25: one thread's call has failed on a name that is not in the registry or
\* on an index that is not in the collection, and another thread has made a
\* call that succeeds on the registry the threads started from.  Then that
\* call has returned what it returns on that registry, the registry is what
\* that call alone makes of it, and no lock is poisoned or held.
C25_FailureLeavesEngineUsable ==
    \A t, u \in Threads :
        ( /\ t # u /\ OnlyCallers(t, u)
          /\ pc[t] = "done" /\ pc[u] = "done"
          /\ call[t].op \in NamedOps \ {"add_collection"}
          /\ call[u].op \in NamedOps
          /\ ret[t].outcome # "Ok"
          /\ Apply(call[t], NewLock(boot)).res.outcome # "Ok"
          /\ Apply(call[u], NewLock(boot)).res.outcome = "Ok" )
        => /\ ret[u] = Apply(call[u], NewLock(boot)).res
           /\ collections = Apply(call[u], NewLock(boot)).reg

\* The contents the registry has had from the call of save_to_file to now.
Instants == instants \cup {Helpers(collections.value)}

\* The step in which save_to_file writes the document and returns Ok.
SaveReturns ==
    /\ pc[Saver] = "write_all"
    /\ pc'[Saver] = "done"
    /\ ret'[Saver] = Ok(Unit)

\* C26, as stated: the document save_to_file writes is the whole registry,
\* its collections and all their records, as it was at one instant between
\* the call and the return, whatever the other thread does meanwhile.
C26_PointInTime ==
    [][SaveReturns => \E i \in Instants : file' = TextFile(to_string(i))]_vars

\* C26, amended: the document holds the collections the registry had at one
\* instant of the call, and each collection with the records it had at an
\* instant of the call, not all of them at the same one.
C26_PerCollection ==
    [][SaveReturns =>
          /\ file'.kind = "text"
          /\ file'.json.t = "obj"
          /\ \E i \in Instants : DOMAIN file'.json.members = DOMAIN i
          /\ \A n \in DOMAIN file'.json.members :
                \E i \in Instants :
                    /\ n \in DOMAIN i
                    /\ file'.json.members[n] = SerializeHelper(i[n])]_vars

\* save_to_file has returned Ok while the other thread made two calls that
\* changed the registry, and the file is the registry of none of the
\* instants.
C26_Witness ==
    /\ pc[Saver] = "done"
    /\ ret[Saver] = Ok(Unit)
    /\ Cardinality(instants) >= 2
    /\ file.kind = "text"
    /\ \A i \in Instants : file # TextFile(to_string(i))

\* C27: load_from_file writes to the path only when no file is there: a file
\* that exists, text or not, is after the call what it was before.
C27_LoadKeepsExistingFile ==
    [][ (last'.op = "load_from_file" /\ file # NoFile) => file' = file ]_vars

\* Every key of the registry maps to a collection that bears the key as its
\* name.
KeysAreNames == \A n \in DOMAIN collections.value : collections.value[n].name = n

\* C28: in every state every key of the registry maps to a collection whose
\* name is the key, and every entry of a document that save_to_file writes
\* has its key as its "name".
C28_KeysAreNames ==
    /\ []KeysAreNames
    /\ [][ (last'.op = "save_to_file" /\ last'.res = Ok(Unit))
            => /\ file'.kind = "text"
               /\ file'.json.t = "obj"
               /\ \A n \in DOMAIN file'.json.members :
                     file'.json.members[n].members["name"] = JStr(n) ]_vars

\* A thread is in a record-level mutation and has resolved the name to a
\* collection: it waits for the lock of the data or holds it.
InFlight(t) ==
    /\ pc[t] \in {"data", "body"}
    /\ call[t].op \in {"create_record", "update_record", "delete_record"}

\* The records a mutation that succeeds leaves, index counted from 0.
Mutated(c, records) ==
    CASE c.op = "create_record" -> Append(records, c.record)
      [] c.op = "update_record" -> [records EXCEPT ![c.index + 1] = c.record]
      [] c.op = "delete_record" ->
           SubSeq(records, 1, c.index) \o SubSeq(records, c.index + 2, Len(records))

\* C29: from the moment a record-level mutation on n has resolved n until it
\* returns, n stays registered and no other thread holds the registry for
\* writing (delete_collection, add_collection and load assign under that
\* guard), and a mutation that returns Ok has changed the records registered
\* under n.
C29_NoOrphanedWrite ==
    /\ [](\A t \in Threads :
            InFlight(t) =>
                /\ call[t].name \in DOMAIN collections.value
                /\ HoldsRegistry(t)
                /\ \A u \in Threads \ {t} : collections.writer # u)
    /\ [][\A t \in Threads :
             (InFlight(t) /\ pc'[t] = "done" /\ ret'[t].outcome = "Ok") =>
                 /\ call[t].name \in DOMAIN collections'.value
                 /\ RecordsOf(collections', call[t].name)
                      = Mutated(call[t], RecordsOf(collections, call[t].name))]_vars

\* create_record on n holds the data of n for writing while the other
\* thread's delete_collection(n), add_collection(n) or load_from_file waits
\* for the registry.
C29_Witness ==
    \E t \in Threads : \E u \in Threads \ {t} :
        /\ InFlight(t)
        /\ pc[t] = "body"
        /\ \/ /\ call[u].op = "delete_collection"
              /\ call[u].name = call[t].name
              /\ pc[u] = "registry"
           \/ pc[u] = "load_lock"

=============================================================================
